---- MODULE Spec2Model ----
(***************************************************************************)
(* State-machine model of WiiEncryptedReadWriteStream                      *)
(* (src/src/reader_writer.rs): the group-cached encrypted read/write       *)
(* stream over a seekable container.                                       *)
(*                                                                         *)
(* Scale.  A "cell" stands for one AES block (16 bytes) of a buffer and    *)
(* holds a value 0..255.  The layout of a block is kept, with fewer cells: *)
(*   header = H0 array, pad, H1 array, pad, H2 array, pad; then the data.  *)
(* A SHA-1 digest occupies one cell.  AES-128 is a keyed permutation of    *)
(* 0..255 (AesEnc/AesDec), used in CBC mode as the code uses it; SHA-1 is  *)
(* a fold over the hashed cells (Sha1).                                    *)
(*                                                                         *)
(* Buffers are functions on 0 .. n-1, indexed as the code indexes them;    *)
(* the container is a sequence, cell at offset p being file[p + 1].        *)
(***************************************************************************)
EXTENDS Integers, Sequences, FiniteSets, TLC

\* ------------------------------------------------------------------ layout
\* number of H0 digests of a block = number of hashed data slices (31)
H0_COUNT == 2
\* cells of one hashed slice (0x400 bytes)
SLICE_SIZE == 1
\* blocks of a subgroup (8)
BLOCKS_PER_SUBGROUP == 2
\* subgroups of a group (8)
SUBGROUPS == 2
\* entries of the H3 table (0x18000 / 20)
H3_ENTRIES == 8

H0_OFFSET == 0
\* 0x280: H1 array, after the H0 array and its padding
H1_OFFSET == H0_COUNT + 1
\* 0x340: H2 array, after the H1 array and its padding
H2_OFFSET == H1_OFFSET + BLOCKS_PER_SUBGROUP + 1
\* 0x3D0: the last cipher block of the H2 array, used as the IV of the data
IV_OFFSET == H2_OFFSET + SUBGROUPS - 1
\* 0x400
BLOCK_DATA_OFFSET == H2_OFFSET + SUBGROUPS + 1
\* 0x7C00
BLOCK_DATA_SIZE == H0_COUNT * SLICE_SIZE
\* 0x8000
BLOCK_SIZE == BLOCK_DATA_OFFSET + BLOCK_DATA_SIZE
\* 64
BLOCKS_PER_GROUP == SUBGROUPS * BLOCKS_PER_SUBGROUP
\* 0x200000
GROUP_SIZE == BLOCKS_PER_GROUP * BLOCK_SIZE
\* 0x1F0000
GROUP_DATA_SIZE == BLOCKS_PER_GROUP * BLOCK_DATA_SIZE

Byte == 256
\* Option::None of current_group and max_group
None == -1

\* f itself, as an explicit function
Eval(f) == f @@ <<>>

Max(a, b) == IF a >= b THEN a ELSE b
Min(a, b) == IF a <= b THEN a ELSE b

\* ------------------------------------------------------------------ bounds
\* calls per run
MaxOps == 4
\* calls per run when a call of the container may fail
MaxOpsIO == 3
\* calls per run when the stream may be read-only and read_into_vec is called
MaxOpsRO == 3
\* groups the runs address: logical positions 0 .. MaxGroups * GROUP_DATA_SIZE
MaxGroups == 2
\* groups of a container that was filled before the stream is created
PreGroups == 2
\* the max_group of a stream created with a limit
LimitGroup == 1
\* underlying calls that fail in one run
MaxFaults == 1

Positions == 0 .. MaxGroups * GROUP_DATA_SIZE - 1
Groups == 0 .. MaxGroups - 1

\* ------------------------------------------------------------------ crypto
\* the title key handed to create_write
encryption_key == 11

\* one AES-128 block encryption under key k: a permutation of the cell values
AesEnc(k, x) == (5 * x + k + 3) % Byte
\* its inverse (5 * 205 = 1 mod 256)
AesDec(k, y) == (205 * (y + 2 * Byte - k - 3)) % Byte

\* Aes128CbcEnc::new(key, iv).encrypt_padded_mut::<NoPadding>(buf[lo..hi]):
\* c[i] = E(p[i] (+) c[i-1]) with c[lo-1] = iv.  Returns the ciphertext of
\* buf[lo .. hi-1] as a sequence; out is the ciphertext so far, prev its
\* last cell.
RECURSIVE CbcEncrypt(_, _, _, _, _, _)
CbcEncrypt(k, prev, buf, lo, hi, out) ==
    IF lo = hi THEN out
    ELSE CbcEncrypt(k, AesEnc(k, (buf[lo] + prev) % Byte), buf, lo + 1, hi,
                    Append(out, AesEnc(k, (buf[lo] + prev) % Byte)))

\* Aes128CbcDec::new(key, iv).decrypt_padded_mut::<NoPadding>(buf[lo..hi]):
\* plaintext cell i, p[i] = D(c[i]) (-) c[i-1] with c[lo-1] = iv
CbcDecryptCell(k, iv, buf, lo, i) ==
    (AesDec(k, buf[i]) + Byte - (IF i = lo THEN iv ELSE buf[i - 1])) % Byte

\* Sha1 over the cells f[i] .. f[n-1] after h: one digest cell
RECURSIVE Sha1From(_, _, _, _)
Sha1From(f, n, i, h) ==
    IF i = n THEN h ELSE Sha1From(f, n, i + 1, (31 * h + f[i] + 17) % Byte)

\* Sha1::new(), update(f[0 .. n-1]), finalize_reset()
Sha1(f, n) == Sha1From(f, n, 0, 7)

\* ------------------------------------------------------------- hash tree
\* first cell of block c of subgroup s (s * 0x40000 + c * 0x8000)
BlockBase(s, c) == s * (BLOCKS_PER_SUBGROUP * BLOCK_SIZE) + c * BLOCK_SIZE

\* h0 of the block at base: the digest of each data slice
H0Of(buffer, base) ==
    Eval([j \in 0 .. H0_COUNT - 1 |->
        Sha1([i \in 0 .. SLICE_SIZE - 1 |->
                 buffer[base + BLOCK_DATA_OFFSET + j * SLICE_SIZE + i]],
             SLICE_SIZE)])

\* the h0 array of every block of the group, by subgroup and block
H0All(buffer) ==
    Eval([s \in 0 .. SUBGROUPS - 1 |->
        Eval([c \in 0 .. BLOCKS_PER_SUBGROUP - 1 |->
            H0Of(buffer, BlockBase(s, c))])])

\* H1All hashing the h0 array of the subgroup's first block for every entry
H1AllFirstBlock(h0) ==
    Eval([s \in 0 .. SUBGROUPS - 1 |->
        Eval([c \in 0 .. BLOCKS_PER_SUBGROUP - 1 |-> Sha1(h0[s][0], H0_COUNT)])])

\* h1 of every subgroup: entry c is the digest of block c's h0 array
H1All(h0) ==
    Eval([s \in 0 .. SUBGROUPS - 1 |->
        Eval([c \in 0 .. BLOCKS_PER_SUBGROUP - 1 |-> Sha1(h0[s][c], H0_COUNT)])])

\* h2 of the group: entry s is the digest of subgroup s's h1 array
H2All(h1) ==
    Eval([s \in 0 .. SUBGROUPS - 1 |-> Sha1(h1[s], BLOCKS_PER_SUBGROUP)])

\* the buffer after the hashing passes of hash_encrypt_block: every header
\* holds its h0, its subgroup's h1, the group's h2 and zeroed padding; the
\* data regions are as they were
HashedBuffer(buffer, h0, h1, h2) ==
    Eval([i \in 0 .. GROUP_SIZE - 1 |->
        IF i % BLOCK_SIZE >= BLOCK_DATA_OFFSET THEN buffer[i]
        ELSE IF i % BLOCK_SIZE < H0_OFFSET + H0_COUNT
        THEN h0[(i \div BLOCK_SIZE) \div BLOCKS_PER_SUBGROUP]
               [(i \div BLOCK_SIZE) % BLOCKS_PER_SUBGROUP]
               [(i % BLOCK_SIZE) - H0_OFFSET]
        ELSE IF i % BLOCK_SIZE >= H1_OFFSET
                /\ i % BLOCK_SIZE < H1_OFFSET + BLOCKS_PER_SUBGROUP
        THEN h1[(i \div BLOCK_SIZE) \div BLOCKS_PER_SUBGROUP]
               [(i % BLOCK_SIZE) - H1_OFFSET]
        ELSE IF i % BLOCK_SIZE >= H2_OFFSET
                /\ i % BLOCK_SIZE < H2_OFFSET + SUBGROUPS
        THEN h2[(i % BLOCK_SIZE) - H2_OFFSET]
        ELSE 0])

\* EncryptBlockData lifting the IV from the header before its encryption
EncryptBlockDataPlainIv(key, hb, base, hdr) ==
    CbcEncrypt(key, hb[base + IV_OFFSET], hb, base + BLOCK_DATA_OFFSET,
               base + BLOCK_SIZE, hdr)

\* the data of the block at base encrypted under the IV lifted from its
\* encrypted header hdr, appended to that header
EncryptBlockData(key, hb, base, hdr) ==
    CbcEncrypt(key, hdr[IV_OFFSET + 1], hb, base + BLOCK_DATA_OFFSET,
               base + BLOCK_SIZE, hdr)

\* the encryption pass over the block at base: the header under a zero IV,
\* then the data.  Returns the block's cells as a sequence.
EncryptBlock(key, hb, base) ==
    EncryptBlockData(key, hb, base,
        CbcEncrypt(key, 0, hb, base, base + BLOCK_DATA_OFFSET, <<>>))

\* the blocks of a group as one buffer
JoinBlocks(blocks) ==
    Eval([i \in 0 .. GROUP_SIZE - 1 |->
             blocks[i \div BLOCK_SIZE][(i % BLOCK_SIZE) + 1]])

\* the encryption pass of hash_encrypt_block over the hashed buffer hb
EncryptedBuffer(key, hb) ==
    JoinBlocks(Eval([b \in 0 .. BLOCKS_PER_GROUP - 1 |->
                        EncryptBlock(key, hb, b * BLOCK_SIZE)]))

HashEncryptWith(buffer, key, h0, h1, h2) ==
    [buffer |-> EncryptedBuffer(key, HashedBuffer(buffer, h0, h1, h2)),
     h3     |-> Sha1(h2, SUBGROUPS)]
HashEncryptH1(buffer, key, h0, h1) ==
    HashEncryptWith(buffer, key, h0, h1, H2All(h1))
HashEncryptH0(buffer, key, h0) == HashEncryptH1(buffer, key, h0, H1All(h0))

\* hash_encrypt_block(buffer, h3_ref, key): the buffer hashed and encrypted
\* in place, and the digest written through h3_ref
hash_encrypt_block(buffer, key) == HashEncryptH0(buffer, key, H0All(buffer))

\* the decryption loop of do_load_group: in every block the data region is
\* decrypted under the IV read from the (still encrypted) header cell
\* 0x3D0; the header cells stay as they were read
DecryptGroupData(key, buffer) ==
    Eval([i \in 0 .. GROUP_SIZE - 1 |->
        IF i % BLOCK_SIZE >= BLOCK_DATA_OFFSET
        THEN CbcDecryptCell(key,
                 buffer[(i \div BLOCK_SIZE) * BLOCK_SIZE + IV_OFFSET], buffer,
                 (i \div BLOCK_SIZE) * BLOCK_SIZE + BLOCK_DATA_OFFSET, i)
        ELSE buffer[i]])

\* ------------------------------------------------------------- container
\* data_offset of the stream: 0, as in test_write
data_offset == 0

\* seek(Start(pos)) then write_all(data[0 .. n-1]): a write past the end
\* extends the container, the gap reads as zero
FileWriteAt(f, pos, data, n) ==
    Eval([i \in 1 .. Max(Len(f), pos + n) |->
        IF i - 1 >= pos /\ i - 1 < pos + n THEN data[i - 1 - pos]
        ELSE IF i <= Len(f) THEN f[i] ELSE 0])

\* cells available to a read of GROUP_SIZE cells at pos
FileAvail(f, pos) == Max(0, Min(GROUP_SIZE, Len(f) - pos))

\* the buffer after n cells from pos were read into its start
FileReadInto(f, pos, buffer, n) ==
    Eval([i \in 0 .. GROUP_SIZE - 1 |->
             IF i < n THEN f[pos + i + 1] ELSE buffer[i]])

ZeroGroup == Eval([i \in 0 .. GROUP_SIZE - 1 |-> 0])

\* cells a failing read_exact or write_all transfers before it fails
PartialCells == GROUP_SIZE \div 2

\* ----------------------------------------------------------------- state
VARIABLES
    file,              \* the underlying container (RS)
    h3,                \* the caller's H3 table, one digest per group
    open_mode,         \* "ReadWrite" or "Readonly"
    max_group,         \* the open mode's max_group, None or a number
    current_group,     \* the group loaded in the cache, or None
    group_cache,       \* the cells of the cached group
    is_dirty,          \* set when data is written to the cached group
    current_position,  \* the logical position
    filled_groups,     \* highest group that exists in the container
    op,                \* the last call and what it returned
    wr,                \* the last write call, and the view before it
    shadow,            \* per logical position, the cell last written to it
    written_back,      \* per group, whether a cache-out of it completed, and
                       \* the cache as it was before that cache-out
    pre_groups,        \* groups the container held when the stream was made
    hist,              \* the calls since the last write, while they follow
                       \* one of the patterns the properties speak of
    run,               \* "sw": only seeks and writes so far; "swf": then
                       \* one flush; "no": anything else
    nfaults,           \* underlying calls that failed so far
    left,              \* calls the run may still make
    builder,           \* add_partition: where it is, the calls it made of the
                       \* partition definition, and its locals
    part               \* a WiiPartitionReadStream over the same container,
                       \* and what its last call returned

vars == <<file, h3, open_mode, max_group, current_group, group_cache, is_dirty,
          current_position, filled_groups, op, wr, shadow, written_back,
          pre_groups, hist, run, nfaults, left, builder, part>>

\* the stream as one value, for the operators that model the methods.
\* fault names the underlying call that fails next ("none": no call fails);
\* err is set once a call has failed, which ends the method with Err;
\* kind is the ErrorKind of that Err;
\* outs lists the cache-outs the method completed, <<group, cache before>>;
\* loads lists the groups do_load_group was called for;
\* cells lists the cache cells the method copied to or from, <<group, index>>.
Stream(fault) ==
    [file |-> file, h3 |-> h3, open_mode |-> open_mode, max_group |-> max_group,
     current_group |-> current_group, group_cache |-> group_cache,
     is_dirty |-> is_dirty, current_position |-> current_position,
     filled_groups |-> filled_groups, fault |-> fault, err |-> FALSE,
     kind |-> "none", outs |-> <<>>, loads |-> <<>>, cells |-> <<>>,
     skips |-> <<>>]

\* OpenMode::get_max_size
get_max_size(mg) == IF mg = None THEN None ELSE mg * GROUP_DATA_SIZE

\* do_load_group(group): cache-in
do_load_group(s, group) ==
    IF s.fault = "seek"
    THEN [s EXCEPT !.is_dirty = FALSE, !.err = TRUE, !.fault = "none",
                   !.kind = "Other", !.loads = Append(@, group)]
    ELSE IF s.fault = "read"
    THEN [s EXCEPT !.is_dirty = FALSE, !.err = TRUE, !.fault = "none",
                   !.kind = "Other", !.loads = Append(@, group),
                   !.group_cache =
                       FileReadInto(s.file, data_offset + group * GROUP_SIZE,
                           s.group_cache,
                           Min(FileAvail(s.file, data_offset + group * GROUP_SIZE),
                               PartialCells))]
    ELSE IF FileAvail(s.file, data_offset + group * GROUP_SIZE) < GROUP_SIZE
    THEN \* read_exact meets the end of the container: UnexpectedEof, the
         \* cells before the end copied as std's default read_exact does
         [s EXCEPT !.is_dirty = FALSE, !.err = TRUE,
                   !.kind = "UnexpectedEof", !.loads = Append(@, group),
                   !.group_cache =
                       FileReadInto(s.file, data_offset + group * GROUP_SIZE,
                           s.group_cache,
                           FileAvail(s.file, data_offset + group * GROUP_SIZE))]
    ELSE [s EXCEPT !.is_dirty = FALSE,
                   !.current_group = group,
                   !.loads = Append(@, group),
                   !.group_cache =
                       DecryptGroupData(encryption_key,
                           FileReadInto(s.file, data_offset + group * GROUP_SIZE,
                                        s.group_cache, GROUP_SIZE))]

\* CacheOutWith seeking to the group's logical offset, current_group groups
\* of GROUP_DATA_SIZE cells into the container
CacheOutAtLogicalOffset(s, he) ==
    IF s.fault = "seek"
    THEN [s EXCEPT !.group_cache = he.buffer, !.h3[s.current_group] = he.h3,
                   !.err = TRUE, !.fault = "none", !.kind = "Other"]
    ELSE IF s.fault = "write"
    THEN [s EXCEPT !.group_cache = he.buffer, !.h3[s.current_group] = he.h3,
                   !.err = TRUE, !.fault = "none", !.kind = "Other",
                   !.file = FileWriteAt(s.file,
                                data_offset + GROUP_DATA_SIZE * s.current_group,
                                he.buffer, PartialCells)]
    ELSE [s EXCEPT !.group_cache = he.buffer, !.h3[s.current_group] = he.h3,
                   !.file = FileWriteAt(s.file,
                                data_offset + GROUP_DATA_SIZE * s.current_group,
                                he.buffer, GROUP_SIZE),
                   !.filled_groups = Max(s.filled_groups, s.current_group),
                   !.outs = Append(s.outs, <<s.current_group, s.group_cache>>)]

\* CacheOutWith leaving filled_groups as it was
CacheOutKeepsFilled(s, he) ==
    IF s.fault = "seek"
    THEN [s EXCEPT !.group_cache = he.buffer, !.h3[s.current_group] = he.h3,
                   !.err = TRUE, !.fault = "none", !.kind = "Other"]
    ELSE IF s.fault = "write"
    THEN [s EXCEPT !.group_cache = he.buffer, !.h3[s.current_group] = he.h3,
                   !.err = TRUE, !.fault = "none", !.kind = "Other",
                   !.file = FileWriteAt(s.file,
                                data_offset + GROUP_SIZE * s.current_group,
                                he.buffer, PartialCells)]
    ELSE [s EXCEPT !.group_cache = he.buffer, !.h3[s.current_group] = he.h3,
                   !.file = FileWriteAt(s.file,
                                data_offset + GROUP_SIZE * s.current_group,
                                he.buffer, GROUP_SIZE),
                   !.outs = Append(s.outs, <<s.current_group, s.group_cache>>)]

\* the cache-out after hash_encrypt_block returned he: seek, write_all,
\* filled_groups
CacheOutWith(s, he) ==
    IF s.fault = "seek"
    THEN [s EXCEPT !.group_cache = he.buffer, !.h3[s.current_group] = he.h3,
                   !.err = TRUE, !.fault = "none", !.kind = "Other"]
    ELSE IF s.fault = "write"
    THEN [s EXCEPT !.group_cache = he.buffer, !.h3[s.current_group] = he.h3,
                   !.err = TRUE, !.fault = "none", !.kind = "Other",
                   !.file = FileWriteAt(s.file,
                                data_offset + GROUP_SIZE * s.current_group,
                                he.buffer, PartialCells)]
    ELSE [s EXCEPT !.group_cache = he.buffer, !.h3[s.current_group] = he.h3,
                   !.file = FileWriteAt(s.file,
                                data_offset + GROUP_SIZE * s.current_group,
                                he.buffer, GROUP_SIZE),
                   !.filled_groups = Max(s.filled_groups, s.current_group),
                   !.outs = Append(s.outs, <<s.current_group, s.group_cache>>)]

\* cache-out of the cached group, as write and flush both do it:
\* hash_encrypt_block in place, then seek, write_all, filled_groups
CacheOut(s) ==
    CacheOutWith(s, hash_encrypt_block(s.group_cache, encryption_key))

\* the place in the cache of offset_in_block of block
CacheIndex(block, offset_in_block) == block * BLOCK_SIZE + offset_in_block

\* the cache after buf[1 .. n] was copied to its cells at ..
CopyIn(cache, at, buf, n) ==
    Eval([i \in 0 .. GROUP_SIZE - 1 |->
             IF i >= at /\ i < at + n THEN buf[i - at + 1] ELSE cache[i]])

\* the cells at .. at + n - 1 of the cache of group, in order
CellsAt(group, at, n) == [i \in 1 .. n |-> <<group, at + i - 1>>]

\* --------------------------------------------------------------- methods
\* the loop of Write::write.  buf is what is left of the caller's buffer,
\* (group, block, offset_in_block) the place of its first cell.
\* Returns [s, n, ok]: the stream, bytes_written, and Ok or Err.
RECURSIVE WriteLoop(_, _, _, _, _, _)
RECURSIVE WriteLoaded(_, _, _, _, _, _)
RECURSIVE WriteSwitched(_, _, _, _, _, _)

\* WriteLoaded continuing at the start of the next block, not at the start
\* of its data region
WriteLoadedFromBlockStart(b, buf, group, block, offset_in_block, bytes_written) ==
    IF b.err THEN [s |-> b, n |-> 0, ok |-> FALSE]
    ELSE WriteLoop(
            [b EXCEPT !.current_group = group,
                      !.is_dirty = TRUE,
                      !.group_cache =
                          CopyIn(b.group_cache,
                                 CacheIndex(block, offset_in_block), buf,
                                 Min(BLOCK_SIZE - offset_in_block, Len(buf))),
                      !.cells =
                          @ \o CellsAt(group, CacheIndex(block, offset_in_block),
                                       Min(BLOCK_SIZE - offset_in_block, Len(buf)))],
            SubSeq(buf, Min(BLOCK_SIZE - offset_in_block, Len(buf)) + 1, Len(buf)),
            IF block + 1 = BLOCKS_PER_GROUP THEN group + 1 ELSE group,
            IF block + 1 = BLOCKS_PER_GROUP THEN 0 ELSE block + 1,
            0,
            bytes_written + Min(BLOCK_SIZE - offset_in_block, Len(buf)))

\* the rest of an iteration, b being the stream once the cached group is
\* the one to write to (or the load failed): copy, advance, iterate
WriteLoaded(b, buf, group, block, offset_in_block, bytes_written) ==
    IF b.err THEN [s |-> b, n |-> 0, ok |-> FALSE]
    ELSE WriteLoop(
            [b EXCEPT !.current_group = group,
                      !.is_dirty = TRUE,
                      !.group_cache =
                          CopyIn(b.group_cache,
                                 CacheIndex(block, offset_in_block), buf,
                                 Min(BLOCK_SIZE - offset_in_block, Len(buf))),
                      !.cells =
                          @ \o CellsAt(group, CacheIndex(block, offset_in_block),
                                       Min(BLOCK_SIZE - offset_in_block, Len(buf)))],
            SubSeq(buf, Min(BLOCK_SIZE - offset_in_block, Len(buf)) + 1, Len(buf)),
            IF block + 1 = BLOCKS_PER_GROUP THEN group + 1 ELSE group,
            IF block + 1 = BLOCKS_PER_GROUP THEN 0 ELSE block + 1,
            BLOCK_DATA_OFFSET,
            bytes_written + Min(BLOCK_SIZE - offset_in_block, Len(buf)))

\* a cache-in skipped because group > filled_groups: the group, and whether
\* this call has written it back before
Skipped(a, group) ==
    <<group, \E i \in 1 .. Len(a.outs) : a.outs[i][1] = group>>

\* WriteSwitched never loading the group it switches to
WriteSwitchedNoLoad(a, buf, group, block, offset_in_block, bytes_written) ==
    WriteLoaded(a, buf, group, block, offset_in_block, bytes_written)

\* the group switch after the cache-out, a being the stream after it: the
\* load is skipped when the write covers the whole group or the group is
\* past filled_groups
WriteSwitched(a, buf, group, block, offset_in_block, bytes_written) ==
    WriteLoaded(
        IF ~a.err
           /\ ~((block = 0 /\ offset_in_block = BLOCK_DATA_OFFSET
                   /\ Len(buf) >= GROUP_DATA_SIZE)
                \/ group > a.filled_groups)
        THEN do_load_group(
                 [a EXCEPT !.filled_groups = Max(a.filled_groups, group)], group)
        ELSE IF ~a.err /\ group > a.filled_groups
        THEN [a EXCEPT !.skips = Append(@, Skipped(a, group))]
        ELSE a,
        buf, group, block, offset_in_block, bytes_written)

\* WriteLoop with the limit test off by one (max_group < group)
WriteLoopPastLimit(s, buf, group, block, offset_in_block, bytes_written) ==
    IF buf = <<>> \/ (s.max_group # None /\ s.max_group < group)
    THEN [s |-> [s EXCEPT !.current_position = @ + bytes_written],
          n |-> bytes_written, ok |-> TRUE]
    ELSE IF s.current_group # None /\ s.current_group # group
    THEN WriteSwitched(IF s.is_dirty THEN CacheOut(s) ELSE s,
                       buf, group, block, offset_in_block, bytes_written)
    ELSE WriteLoaded(s, buf, group, block, offset_in_block, bytes_written)

WriteLoop(s, buf, group, block, offset_in_block, bytes_written) ==
    IF buf = <<>> \/ (s.max_group # None /\ s.max_group <= group)
    THEN [s |-> [s EXCEPT !.current_position = @ + bytes_written],
          n |-> bytes_written, ok |-> TRUE]
    ELSE IF s.current_group # None /\ s.current_group # group
    THEN WriteSwitched(IF s.is_dirty THEN CacheOut(s) ELSE s,
                       buf, group, block, offset_in_block, bytes_written)
    ELSE WriteLoaded(s, buf, group, block, offset_in_block, bytes_written)

\* Write::write ignoring the open mode
WriteAnyMode(s, buf) ==
    WriteLoop(s, buf,
              s.current_position \div GROUP_DATA_SIZE,
              (s.current_position % GROUP_DATA_SIZE) \div BLOCK_DATA_SIZE,
              BLOCK_DATA_OFFSET + (s.current_position % BLOCK_DATA_SIZE),
              0)

\* Write::write(buf): Unsupported on a Readonly stream
write(s, buf) ==
    IF s.open_mode = "Readonly"
    THEN [s |-> [s EXCEPT !.err = TRUE, !.kind = "Unsupported"],
          n |-> 0, ok |-> FALSE]
    ELSE WriteLoop(s, buf,
                   s.current_position \div GROUP_DATA_SIZE,
                   (s.current_position % GROUP_DATA_SIZE) \div BLOCK_DATA_SIZE,
                   BLOCK_DATA_OFFSET + (s.current_position % BLOCK_DATA_SIZE),
                   0)

\* FlushWrittenBack leaving the cached-group identifier set
FlushKeepsGroup(a) ==
    IF a.err THEN [s |-> a, ok |-> FALSE]
    ELSE IF a.fault = "flush"
    THEN [s |-> [a EXCEPT !.err = TRUE, !.fault = "none", !.kind = "Other"],
          ok |-> FALSE]
    ELSE [s |-> a, ok |-> TRUE]

\* the rest of flush after the cache-out: file.flush(), current_group
FlushWrittenBack(a) ==
    IF a.err THEN [s |-> a, ok |-> FALSE]
    ELSE IF a.fault = "flush"
    THEN [s |-> [a EXCEPT !.err = TRUE, !.fault = "none", !.kind = "Other"],
          ok |-> FALSE]
    ELSE [s |-> [a EXCEPT !.current_group = None], ok |-> TRUE]

\* Write::flush: Unsupported on a Readonly stream.  Returns [s, ok].
flush(s) ==
    IF s.open_mode = "Readonly"
    THEN [s |-> [s EXCEPT !.err = TRUE, !.kind = "Unsupported"], ok |-> FALSE]
    ELSE IF s.current_group # None /\ s.is_dirty
    THEN FlushWrittenBack(CacheOut(s))
    ELSE [s |-> s, ok |-> TRUE]

\* get_decrypted_block_data loading the group on every call
AlwaysLoadGroup(s, group) == do_load_group(s, group)

\* get_decrypted_block_data(group, block): loads the group unless it is the
\* cached one; the caller then reads the block's data region from the cache
get_decrypted_block_data(s, group) ==
    IF s.current_group = group THEN s ELSE do_load_group(s, group)

\* cells at .. at + n - 1 of the cache, as a sequence
CopyOut(cache, at, n) == [i \in 1 .. n |-> cache[at + i - 1]]

\* the loop of Read::read.  want is what is left of the caller's buffer.
\* Returns [s, data, ok].
RECURSIVE ReadLoop(_, _, _, _, _, _)
RECURSIVE ReadLoaded(_, _, _, _, _, _)

\* the rest of an iteration, a being the stream after
\* get_decrypted_block_data
ReadLoaded(a, want, group, block, offset_in_block_data, data) ==
    IF a.err THEN [s |-> a, data |-> <<>>, ok |-> FALSE]
    ELSE ReadLoop(
            [a EXCEPT !.current_position =
                          @ + Min(BLOCK_DATA_SIZE - offset_in_block_data, want),
                      !.cells =
                          @ \o CellsAt(group,
                                   CacheIndex(block, BLOCK_DATA_OFFSET + offset_in_block_data),
                                   Min(BLOCK_DATA_SIZE - offset_in_block_data, want))],
            want - Min(BLOCK_DATA_SIZE - offset_in_block_data, want),
            IF block + 1 = BLOCKS_PER_GROUP THEN group + 1 ELSE group,
            IF block + 1 = BLOCKS_PER_GROUP THEN 0 ELSE block + 1,
            0,
            data \o CopyOut(a.group_cache,
                        CacheIndex(block, BLOCK_DATA_OFFSET + offset_in_block_data),
                        Min(BLOCK_DATA_SIZE - offset_in_block_data, want)))

\* ReadLoop with the size test off by one (current_position > size)
ReadLoopPastMaxSize(s, want, group, block, offset_in_block_data, data) ==
    IF want = 0
       \/ (get_max_size(s.max_group) # None
             /\ s.current_position > get_max_size(s.max_group))
    THEN [s |-> s, data |-> data, ok |-> TRUE]
    ELSE ReadLoaded(get_decrypted_block_data(s, group),
                    want, group, block, offset_in_block_data, data)

ReadLoop(s, want, group, block, offset_in_block_data, data) ==
    IF want = 0
       \/ (get_max_size(s.max_group) # None
             /\ s.current_position >= get_max_size(s.max_group))
    THEN [s |-> s, data |-> data, ok |-> TRUE]
    ELSE ReadLoaded(get_decrypted_block_data(s, group),
                    want, group, block, offset_in_block_data, data)

\* Read::read(buf) with buf.len() = len
read(s, len) ==
    ReadLoop(s, len,
             s.current_position \div GROUP_DATA_SIZE,
             (s.current_position % GROUP_DATA_SIZE) \div BLOCK_DATA_SIZE,
             s.current_position % BLOCK_DATA_SIZE,
             <<>>)

\* the loop of read_into_vec.  offset is the local cursor, want what is
\* left of length, data the caller's Vec.  Returns [s, data, ok].
RECURSIVE ReadVecLoop(_, _, _, _, _, _, _)
RECURSIVE ReadVecLoaded(_, _, _, _, _, _, _)

\* ReadVecLoaded advancing the stream's position as Read::read does
ReadVecLoadedMovesCursor(a, offset, want, group, block, offset_in_block_data, data) ==
    IF a.err THEN [s |-> a, data |-> data, ok |-> FALSE]
    ELSE ReadVecLoop(
            [a EXCEPT !.current_position =
                          @ + Min(BLOCK_DATA_SIZE - offset_in_block_data, want),
                      !.cells =
                          @ \o CellsAt(group,
                                   CacheIndex(block, BLOCK_DATA_OFFSET + offset_in_block_data),
                                   Min(BLOCK_DATA_SIZE - offset_in_block_data, want))],
            offset + Min(BLOCK_DATA_SIZE - offset_in_block_data, want),
            want - Min(BLOCK_DATA_SIZE - offset_in_block_data, want),
            IF block + 1 = BLOCKS_PER_GROUP THEN group + 1 ELSE group,
            IF block + 1 = BLOCKS_PER_GROUP THEN 0 ELSE block + 1,
            0,
            data \o CopyOut(a.group_cache,
                        CacheIndex(block, BLOCK_DATA_OFFSET + offset_in_block_data),
                        Min(BLOCK_DATA_SIZE - offset_in_block_data, want)))

\* ReadVecLoaded keeping offset_in_block_data for the next block
ReadVecLoadedKeepsOffset(a, offset, want, group, block, offset_in_block_data, data) ==
    IF a.err THEN [s |-> a, data |-> data, ok |-> FALSE]
    ELSE ReadVecLoop(
            [a EXCEPT !.cells =
                          @ \o CellsAt(group,
                                   CacheIndex(block, BLOCK_DATA_OFFSET + offset_in_block_data),
                                   Min(BLOCK_DATA_SIZE - offset_in_block_data, want))],
            offset + Min(BLOCK_DATA_SIZE - offset_in_block_data, want),
            want - Min(BLOCK_DATA_SIZE - offset_in_block_data, want),
            IF block + 1 = BLOCKS_PER_GROUP THEN group + 1 ELSE group,
            IF block + 1 = BLOCKS_PER_GROUP THEN 0 ELSE block + 1,
            offset_in_block_data,
            data \o CopyOut(a.group_cache,
                        CacheIndex(block, BLOCK_DATA_OFFSET + offset_in_block_data),
                        Min(BLOCK_DATA_SIZE - offset_in_block_data, want)))

\* the rest of an iteration, a being the stream after
\* get_decrypted_block_data
ReadVecLoaded(a, offset, want, group, block, offset_in_block_data, data) ==
    IF a.err THEN [s |-> a, data |-> data, ok |-> FALSE]
    ELSE ReadVecLoop(
            [a EXCEPT !.cells =
                          @ \o CellsAt(group,
                                   CacheIndex(block, BLOCK_DATA_OFFSET + offset_in_block_data),
                                   Min(BLOCK_DATA_SIZE - offset_in_block_data, want))],
            offset + Min(BLOCK_DATA_SIZE - offset_in_block_data, want),
            want - Min(BLOCK_DATA_SIZE - offset_in_block_data, want),
            IF block + 1 = BLOCKS_PER_GROUP THEN group + 1 ELSE group,
            IF block + 1 = BLOCKS_PER_GROUP THEN 0 ELSE block + 1,
            0,
            data \o CopyOut(a.group_cache,
                        CacheIndex(block, BLOCK_DATA_OFFSET + offset_in_block_data),
                        Min(BLOCK_DATA_SIZE - offset_in_block_data, want)))

ReadVecLoop(s, offset, want, group, block, offset_in_block_data, data) ==
    IF want = 0
       \/ (get_max_size(s.max_group) # None
             /\ offset >= get_max_size(s.max_group))
    THEN [s |-> s, data |-> data, ok |-> TRUE]
    ELSE ReadVecLoaded(get_decrypted_block_data(s, group),
                       offset, want, group, block, offset_in_block_data, data)

\* read_into_vec(offset, length, buffer): buffer is cleared first
read_into_vec(s, offset, length) ==
    ReadVecLoop(s, offset, length,
                offset \div GROUP_DATA_SIZE,
                (offset % GROUP_DATA_SIZE) \div BLOCK_DATA_SIZE,
                offset % BLOCK_DATA_SIZE,
                <<>>)

\* Seek::seek clamping the position to the end of what the container holds
SeekClampedToEnd(pos, whence, off) ==
    IF whence = "End" THEN None
    ELSE Min(Max(IF whence = "Current" THEN pos + off ELSE off, 0),
             (Len(file) \div GROUP_SIZE) * GROUP_DATA_SIZE)

\* Seek::seek: the new position, or None for SeekFrom::End (Unsupported)
seek(pos, whence, off) ==
    IF whence = "End" THEN None
    ELSE Max(IF whence = "Current" THEN pos + off ELSE off, 0)


\* ------------------------------------------------------------- container
\* the cells of group g of the container, as a buffer
FileGroup(f, g) ==
    Eval([i \in 0 .. GROUP_SIZE - 1 |-> f[data_offset + g * GROUP_SIZE + i + 1]])

FileHasGroup(f, g) == Len(f) >= data_offset + (g + 1) * GROUP_SIZE

\* is cell i of a group buffer in the data region of its block
InData(i) == (i % BLOCK_SIZE) >= BLOCK_DATA_OFFSET

\* the data regions of a group buffer
DataOf(buffer) ==
    Eval([i \in {j \in 0 .. GROUP_SIZE - 1 : InData(j)} |-> buffer[i]])

\* ------------------------------------------------------------------ Init
\* the plain content of group g of a partition that exists before the
\* stream is made
InitPlain(g) ==
    Eval([i \in 0 .. GROUP_SIZE - 1 |->
             IF InData(i) THEN (100 + g * GROUP_SIZE + i) % Byte ELSE 0])

InitGroups ==
    Eval([g \in 0 .. PreGroups - 1 |->
             hash_encrypt_block(InitPlain(g), encryption_key)])

\* a container holding the first n of these groups, hashed and encrypted
InitFile(n) ==
    [i \in 1 .. n * GROUP_SIZE |->
        InitGroups[(i - 1) \div GROUP_SIZE].buffer[(i - 1) % GROUP_SIZE]]

InitFiles == [n \in {0, PreGroups} |-> Eval(InitFile(n))]

\* the H3 table that goes with InitFile(n)
InitH3(n) ==
    [g \in 0 .. H3_ENTRIES - 1 |-> IF g < n THEN InitGroups[g].h3 ELSE 0]

\* what is kept of a call: its name, Ok or Err and the ErrorKind, the count
\* or position it returned, the data it returned, the underlying call that
\* failed, the position it started at, the length asked for, the seek's
\* SeekFrom, and the loads and cells of the stream value it left
Ret(name, ok, n, data, fault, pos, s) ==
    [name |-> name, ok |-> ok, n |-> n, data |-> data, fault |-> fault,
     kind |-> s.kind, pos |-> pos, req |-> 0, whence |-> "", off |-> 0,
     loads |-> s.loads, cells |-> s.cells, skips |-> s.skips,
     outs |-> [i \in 1 .. Len(s.outs) |-> s.outs[i][1]]]

NoOp == [name |-> "none", ok |-> TRUE, n |-> 0, data |-> <<>>, fault |-> "none",
         kind |-> "none", pos |-> 0, req |-> 0, whence |-> "", off |-> 0,
         loads |-> <<>>, cells |-> <<>>, skips |-> <<>>, outs |-> <<>>]
NoWrite == [pos |-> 0, buf |-> <<>>, n |-> 0, view |-> <<>>, filled |-> 0]

\* no add_partition is running
NoBuilder == [pc |-> "none", calls |-> <<>>, total_files |-> 0,
              files_left |-> 0, fst_off |-> 0, data_size |-> 0,
              processed_files |-> 0, progress |-> <<>>,
              tmd_in |-> <<>>, tmd |-> <<>>, h3_table |-> <<>>,
              regions |-> <<>>, fst_entries |-> <<>>,
              current_data_offset |-> 0, window_off |-> None,
              partitions |-> <<>>, returns |-> <<>>,
              table |-> [at |-> None, count |-> None, entries_off |-> None,
                         entries_at |-> None, entries |-> <<>>],
              opened |-> [kind |-> "", outcome |-> ""],
              extracted |-> [section |-> "", outcome |-> "", kind |-> ""]]

\* no WiiPartitionReadStream is open
NoPart == [data_size |-> 0, current_block |-> None, block_cache |-> <<>>,
           read_position |-> 0, err |-> FALSE,
           last |-> [name |-> "none", ok |-> TRUE, pos |-> 0, data |-> <<>>]]

\* create_write(file, h3, data_offset, key, max_group, filled_groups), on an
\* empty container or on one that holds PreGroups groups, with or without a
\* group limit
InitWith(ops) ==
    /\ \E pre \in {0, PreGroups} :
         /\ pre_groups = pre
         /\ file = InitFiles[pre]
         /\ h3 = InitH3(pre)
         /\ filled_groups = IF pre = 0 THEN 0 ELSE pre - 1
    /\ open_mode = "ReadWrite"
    /\ max_group \in {None, LimitGroup}
    /\ current_group = None
    /\ group_cache = ZeroGroup
    /\ is_dirty = FALSE
    /\ current_position = 0
    /\ op = NoOp
    /\ wr = NoWrite
    /\ shadow = [p \in Positions |-> None]
    /\ written_back = [g \in Groups |-> [done |-> FALSE, pre |-> <<>>]]
    /\ hist = ""
    /\ run = "sw"
    /\ nfaults = 0
    /\ left = ops
    /\ builder = NoBuilder
    /\ part = NoPart

Init == InitWith(MaxOps)

\* --------------------------------------------------------------- actions
\* the stream's fields after a method left it as s
RECURSIVE Outs(_, _, _)
Outs(wb, outs, i) ==
    IF i > Len(outs) THEN wb
    ELSE Outs(IF outs[i][1] \in DOMAIN wb
              THEN [wb EXCEPT ![outs[i][1]] = [done |-> TRUE, pre |-> DataOf(outs[i][2])]]
              ELSE wb,
              outs, i + 1)

StreamIs(s) ==
    /\ file' = s.file
    /\ h3' = s.h3
    /\ open_mode' = s.open_mode
    /\ max_group' = s.max_group
    /\ current_group' = s.current_group
    /\ group_cache' = s.group_cache
    /\ is_dirty' = s.is_dirty
    /\ current_position' = s.current_position
    /\ filled_groups' = s.filled_groups
    /\ written_back' = Outs(written_back, s.outs, 1)

Commit(s, fault) ==
    /\ StreamIs(s)
    /\ nfaults' = IF fault = "none" THEN nfaults ELSE nfaults + 1
    /\ left' = left - 1
    /\ pre_groups' = pre_groups
    /\ builder' = builder
    /\ part' = part

\* the call made the underlying call that was to fail
FaultTaken(fault, s) == fault = "none" \/ (s.err /\ s.fault = "none")

CanFail(fault) == fault = "none" \/ nfaults < MaxFaults

\* what a read of the whole of group g would return in the stream s: the
\* group's logical content, <<>> when there is none to read
GroupView(s, g) ==
    read([s EXCEPT !.current_position = g * GROUP_DATA_SIZE, !.fault = "none",
                   !.max_group = None],
         GROUP_DATA_SIZE).data

\* the cells of a call's buffer: values no earlier call wrote
Payload(len) == [i \in 1 .. len |-> 16 * left + i - 1]

DoSeek(whence, off) ==
    /\ left > 0
    /\ \E np \in {seek(current_position, whence, off)} :
         /\ current_position' = IF np = None THEN current_position ELSE np
         /\ op' = [Ret("seek", np # None, IF np = None THEN 0 ELSE np, <<>>,
                       "none", current_position, Stream("none"))
                   EXCEPT !.kind = IF np = None THEN "Unsupported" ELSE "none",
                          !.whence = whence,
                          !.off = off]
         /\ hist' = IF hist = "w" /\ np = wr.pos THEN "ws" ELSE ""
         /\ wr' = IF hist = "w" /\ np = wr.pos THEN wr ELSE NoWrite
    /\ left' = left - 1
    /\ UNCHANGED <<file, h3, open_mode, max_group, current_group, group_cache,
                   is_dirty, filled_groups, builder, shadow, written_back, pre_groups, run,
                   nfaults, part>>

DoWrite(len, fault) ==
    /\ left > 0
    /\ CanFail(fault)
    /\ max_group # None \/ current_position + len <= MaxGroups * GROUP_DATA_SIZE
    /\ \E r \in {write(Stream(fault), Payload(len))},
          view \in {GroupView(Stream("none"), current_position \div GROUP_DATA_SIZE)} :
         /\ FaultTaken(fault, r.s)
         /\ Commit(r.s, fault)
         /\ op' = [Ret("write", r.ok, r.n, <<>>, fault, current_position, r.s)
                   EXCEPT !.req = len]
         /\ hist' = IF r.ok THEN "w" ELSE ""
         /\ wr' = IF r.ok
                  THEN [pos |-> current_position, buf |-> Payload(len),
                        n |-> r.n, view |-> view, filled |-> filled_groups]
                  ELSE NoWrite
         /\ shadow' = [p \in Positions |->
                          IF r.ok /\ p >= current_position
                                  /\ p < current_position + r.n
                          THEN Payload(len)[p - current_position + 1]
                          ELSE shadow[p]]
         /\ run' = IF r.ok /\ run \in {"sw", "swr"} THEN run ELSE "no"

DoRead(len, fault) ==
    /\ left > 0
    /\ CanFail(fault)
    /\ \E r \in {read(Stream(fault), len)} :
         /\ FaultTaken(fault, r.s)
         /\ Commit(r.s, fault)
         /\ op' = [Ret("read", r.ok, Len(r.data), r.data, fault,
                       current_position, r.s)
                   EXCEPT !.req = len]
         /\ run' = IF r.ok /\ run \in {"sw", "swr"} THEN "swr" ELSE "no"
    /\ hist' = IF hist = "ws" /\ len = Len(wr.buf) THEN "wsr" ELSE ""
    /\ wr' = IF hist = "ws" /\ len = Len(wr.buf) THEN wr ELSE NoWrite
    /\ UNCHANGED shadow

\* hist after a flush that returned ok, or failed in its cache-out
HistFlush(ok, fault) ==
    IF hist = "w" /\ ok THEN "wf"
    ELSE IF hist = "w" /\ fault \in {"seek", "write"} THEN "wF"
    ELSE IF hist = "wF" /\ ok THEN "wFf"
    ELSE IF hist = "wf" /\ ok THEN "wff"
    ELSE ""

DoFlush(fault) ==
    /\ left > 0
    /\ CanFail(fault)
    /\ \E r \in {flush(Stream(fault))} :
         /\ FaultTaken(fault, r.s)
         /\ Commit(r.s, fault)
         /\ op' = Ret("flush", r.ok, 0, <<>>, fault, current_position, r.s)
         /\ hist' = HistFlush(r.ok, fault)
         /\ wr' = IF HistFlush(r.ok, fault) = "" THEN NoWrite ELSE wr
         /\ run' = IF r.ok /\ run = "sw" THEN "swf"
                   ELSE IF r.ok /\ run = "swr" THEN "swrf"
                   ELSE "no"
    /\ UNCHANGED shadow

\* the inputs of the calls
SeekOffsets == {0, GROUP_DATA_SIZE - 1, GROUP_DATA_SIZE}
CurrentOffsets == {-1}
WriteLens == {1, BLOCK_DATA_SIZE + 1, GROUP_DATA_SIZE, GROUP_DATA_SIZE + 1}
ReadLens == {1, BLOCK_DATA_SIZE + 1}

SeekStart == \E off \in SeekOffsets : DoSeek("Start", off)
SeekCurrent == \E off \in CurrentOffsets : DoSeek("Current", off)
SeekEnd == DoSeek("End", 0)
Write == \E len \in WriteLens : DoWrite(len, "none")
Read == \E len \in ReadLens : DoRead(len, "none")
Flush == DoFlush("none")

\* the same calls with one underlying call failing
WriteFails == \E len \in WriteLens, fault \in {"seek", "read", "write"} :
                  DoWrite(len, fault)
ReadFails == \E len \in ReadLens, fault \in {"seek", "read"} :
                 DoRead(len, fault)
FlushFails == \E fault \in {"seek", "write", "flush"} : DoFlush(fault)

Next ==
    \/ SeekStart
    \/ SeekCurrent
    \/ SeekEnd
    \/ Write
    \/ Read
    \/ Flush

Spec == Init /\ [][Next]_vars

\* the stream over a container whose calls may fail
InitIO == InitWith(MaxOpsIO)

NextIO ==
    \/ SeekStart
    \/ SeekCurrent
    \/ SeekEnd
    \/ Write
    \/ Read
    \/ Flush
    \/ WriteFails
    \/ ReadFails
    \/ FlushFails

SpecIO == InitIO /\ [][NextIO]_vars

\* create_readonly(file, data_offset, key, max_group) on a container that
\* holds PreGroups groups, max_group being some or all of them
InitReadonly(ops) ==
    /\ pre_groups = PreGroups
    /\ file = InitFiles[PreGroups]
    /\ h3 = InitH3(PreGroups)
    /\ filled_groups = 0
    /\ open_mode = "Readonly"
    /\ max_group \in {LimitGroup, PreGroups}
    /\ current_group = None
    /\ group_cache = ZeroGroup
    /\ is_dirty = FALSE
    /\ current_position = 0
    /\ op = NoOp
    /\ wr = NoWrite
    /\ shadow = [p \in Positions |-> None]
    /\ written_back = [g \in Groups |-> [done |-> FALSE, pre |-> <<>>]]
    /\ hist = ""
    /\ run = "sw"
    /\ nfaults = 0
    /\ left = ops
    /\ builder = NoBuilder
    /\ part = NoPart

DoReadIntoVec(offset, length, fault) ==
    /\ left > 0
    /\ CanFail(fault)
    /\ \E r \in {read_into_vec(Stream(fault), offset, length)} :
         /\ FaultTaken(fault, r.s)
         /\ Commit(r.s, fault)
         /\ op' = [Ret("read_into_vec", r.ok, Len(r.data), r.data, fault,
                       offset, r.s)
                   EXCEPT !.req = length]
         /\ run' = IF r.ok /\ run \in {"sw", "swr"} THEN "swr" ELSE "no"
    /\ hist' = ""
    /\ wr' = NoWrite
    /\ UNCHANGED shadow

VecOffsets == {0, GROUP_DATA_SIZE - 1, GROUP_DATA_SIZE}
VecLens == {1, BLOCK_DATA_SIZE + 1, GROUP_DATA_SIZE + BLOCK_DATA_SIZE}

ReadIntoVec == \E offset \in VecOffsets, length \in VecLens :
                   DoReadIntoVec(offset, length, "none")

\* the stream in either open mode, with read_into_vec among the calls
InitRO == InitReadonly(MaxOpsRO) \/ InitWith(MaxOpsRO)

NextRO ==
    \/ SeekStart
    \/ SeekCurrent
    \/ SeekEnd
    \/ Write
    \/ Read
    \/ Flush
    \/ ReadIntoVec

SpecRO == InitRO /\ [][NextRO]_vars

\* ------------------------------------------------ WiiPartitionReadStream
\* calls per run of the two readers side by side
MaxOpsPart == 3
\* the data_size of the partition header: less than a block, a block and a
\* cell, one group, all groups of the container
DataSizes == {1, BLOCK_DATA_SIZE + 1, GROUP_DATA_SIZE, PreGroups * GROUP_DATA_SIZE}

\* get_block_and_offset(data_offset)
get_block_and_offset(o) == <<o \div BLOCK_DATA_SIZE, o % BLOCK_DATA_SIZE>>

\* cells of the container available to a read of BLOCK_SIZE cells at pos
BlockAvail(f, pos) == Max(0, Min(BLOCK_SIZE, Len(f) - pos))

\* the block cache after n cells from pos were read into its start
BlockReadInto(f, pos, cache, n) ==
    Eval([i \in 0 .. BLOCK_SIZE - 1 |-> IF i < n THEN f[pos + i + 1] ELSE cache[i]])

\* the decryption of get_decrypted_block_data: the data region under the
\* IV read from the header cell 0x3D0 as it is in the container
DecryptBlockData(key, cache) ==
    Eval([i \in 0 .. BLOCK_SIZE - 1 |->
             IF i >= BLOCK_DATA_OFFSET
             THEN CbcDecryptCell(key, cache[IV_OFFSET], cache, BLOCK_DATA_OFFSET, i)
             ELSE cache[i]])

\* the mistake of decrypting the data region under a zero IV
BlockDataZeroIv(s, f, block) ==
    IF s.current_block = block THEN s
    ELSE IF BlockAvail(f, data_offset + BLOCK_SIZE * block) < BLOCK_SIZE
    THEN [s EXCEPT !.err = TRUE,
                   !.block_cache =
                       BlockReadInto(f, data_offset + BLOCK_SIZE * block, @,
                                     BlockAvail(f, data_offset + BLOCK_SIZE * block))]
    ELSE [s EXCEPT !.current_block = block,
                   !.block_cache =
                       [i \in 0 .. BLOCK_SIZE - 1 |->
                           IF i >= BLOCK_DATA_OFFSET
                           THEN CbcDecryptCell(encryption_key, 0,
                                    BlockReadInto(f, data_offset + BLOCK_SIZE * block,
                                                  s.block_cache, BLOCK_SIZE),
                                    BLOCK_DATA_OFFSET, i)
                           ELSE f[data_offset + BLOCK_SIZE * block + i + 1]]]

\* WiiPartitionReadStream::get_decrypted_block_data(block): loads and
\* decrypts the block unless it is the cached one; read_exact meeting the
\* end of the container returns UnexpectedEof with the cells before the end
\* copied and current_block as it was
part_get_decrypted_block_data(s, f, block) ==
    IF s.current_block = block THEN s
    ELSE IF BlockAvail(f, data_offset + BLOCK_SIZE * block) < BLOCK_SIZE
    THEN [s EXCEPT !.err = TRUE,
                   !.block_cache =
                       BlockReadInto(f, data_offset + BLOCK_SIZE * block, @,
                                     BlockAvail(f, data_offset + BLOCK_SIZE * block))]
    ELSE [s EXCEPT !.current_block = block,
                   !.block_cache =
                       DecryptBlockData(encryption_key,
                           BlockReadInto(f, data_offset + BLOCK_SIZE * block, @,
                                         BLOCK_SIZE))]

\* count_to_copy at offset o with want cells left
count_to_copy(o, want) == Min(BLOCK_DATA_SIZE - get_block_and_offset(o)[2], want)

\* the loop of Read::read of WiiPartitionReadStream.  Returns [s, data, ok].
RECURSIVE PartReadLoop(_, _, _, _)
RECURSIVE PartReadLoaded(_, _, _, _)

PartReadLoaded(a, f, want, data) ==
    IF a.err THEN [s |-> a, data |-> <<>>, ok |-> FALSE]
    ELSE PartReadLoop(
            [a EXCEPT !.read_position = @ + count_to_copy(a.read_position, want)],
            f, want - count_to_copy(a.read_position, want),
            data \o CopyOut(a.block_cache,
                        BLOCK_DATA_OFFSET + get_block_and_offset(a.read_position)[2],
                        count_to_copy(a.read_position, want)))

PartReadLoop(s, f, want, data) ==
    IF want = 0 \/ s.read_position >= s.data_size
    THEN [s |-> s, data |-> data, ok |-> TRUE]
    ELSE PartReadLoaded(
            part_get_decrypted_block_data(s, f,
                get_block_and_offset(s.read_position)[1]),
            f, want, data)

\* Read::read(buf) of WiiPartitionReadStream with buf.len() = len
part_read(s, f, len) == PartReadLoop([s EXCEPT !.err = FALSE], f, len, <<>>)

\* the loop of WiiPartitionReadStream::read_into_vec, offset the local cursor
RECURSIVE PartVecLoop(_, _, _, _, _)
RECURSIVE PartVecLoaded(_, _, _, _, _)

PartVecLoaded(a, f, offset, want, data) ==
    IF a.err THEN [s |-> a, data |-> <<>>, ok |-> FALSE]
    ELSE PartVecLoop(a, f, offset + count_to_copy(offset, want),
                     want - count_to_copy(offset, want),
                     data \o CopyOut(a.block_cache,
                                 BLOCK_DATA_OFFSET + get_block_and_offset(offset)[2],
                                 count_to_copy(offset, want)))

PartVecLoop(s, f, offset, want, data) ==
    IF want = 0 \/ offset >= s.data_size
    THEN [s |-> s, data |-> data, ok |-> TRUE]
    ELSE PartVecLoaded(
            part_get_decrypted_block_data(s, f, get_block_and_offset(offset)[1]),
            f, offset, want, data)

\* read_into_vec(offset, length, buffer) of WiiPartitionReadStream
part_read_into_vec(s, f, offset, length) ==
    PartVecLoop([s EXCEPT !.err = FALSE], f, offset, length, <<>>)

\* Seek::seek of WiiPartitionReadStream: the new position
part_seek(s, whence, off) ==
    Min(Max(IF whence = "Current" THEN s.read_position + off
            ELSE IF whence = "Start" THEN off
            ELSE s.data_size + off, 0),
        s.data_size)

\* the result r of a call kept in the stream value
PartRet(r, name, pos) ==
    [r.s EXCEPT !.last = [name |-> name, ok |-> r.ok, pos |-> pos, data |-> r.data]]

\* partition_read_stream_from_offset, on the container the read-only
\* WiiEncryptedReadWriteStream is made on; data_size is what the partition
\* header says, within what the container holds
InitPart ==
    /\ pre_groups = PreGroups
    /\ file = InitFiles[PreGroups]
    /\ h3 = InitH3(PreGroups)
    /\ filled_groups = 0
    /\ open_mode = "Readonly"
    /\ max_group \in {LimitGroup, PreGroups}
    /\ current_group = None
    /\ group_cache = ZeroGroup
    /\ is_dirty = FALSE
    /\ current_position = 0
    /\ op = NoOp
    /\ wr = NoWrite
    /\ shadow = [p \in Positions |-> None]
    /\ written_back = [g \in Groups |-> [done |-> FALSE, pre |-> <<>>]]
    /\ hist = ""
    /\ run = "no"
    /\ nfaults = 0
    /\ left = MaxOpsPart
    /\ builder = NoBuilder
    /\ \E data_size \in DataSizes :
         part = [NoPart EXCEPT !.data_size = data_size,
                               !.block_cache = [i \in 0 .. BLOCK_SIZE - 1 |-> 0]]

\* what a call made on both readers leaves of the other variables
BothStep ==
    /\ left' = left - 1
    /\ hist' = ""
    /\ run' = "no"
    /\ wr' = NoWrite
    /\ UNCHANGED <<builder, shadow, pre_groups, nfaults>>

\* the same seek on both readers
DoSeekBoth(whence, off) ==
    /\ left > 0
    /\ \E np \in {seek(current_position, whence, off)} :
         /\ current_position' = IF np = None THEN current_position ELSE np
         /\ op' = [Ret("seek", np # None, IF np = None THEN 0 ELSE np, <<>>,
                       "none", current_position, Stream("none"))
                   EXCEPT !.kind = IF np = None THEN "Unsupported" ELSE "none",
                          !.whence = whence,
                          !.off = off]
    /\ part' = [part EXCEPT !.read_position = part_seek(part, whence, off),
                            !.last = [name |-> "seek", ok |-> TRUE,
                                      pos |-> part.read_position, data |-> <<>>]]
    /\ BothStep
    /\ UNCHANGED <<file, h3, open_mode, max_group, current_group, group_cache,
                   is_dirty, filled_groups, written_back>>

\* the same read on both readers
DoReadBoth(len) ==
    /\ left > 0
    /\ \E r \in {read(Stream("none"), len)} :
         /\ StreamIs(r.s)
         /\ op' = [Ret("read", r.ok, Len(r.data), r.data, "none",
                       current_position, r.s)
                   EXCEPT !.req = len]
    /\ part' = PartRet(part_read(part, file, len), "read", part.read_position)
    /\ BothStep

\* the same read_into_vec on both readers
DoReadIntoVecBoth(offset, length) ==
    /\ left > 0
    /\ \E r \in {read_into_vec(Stream("none"), offset, length)} :
         /\ StreamIs(r.s)
         /\ op' = [Ret("read_into_vec", r.ok, Len(r.data), r.data, "none",
                       offset, r.s)
                   EXCEPT !.req = length]
    /\ part' = PartRet(part_read_into_vec(part, file, offset, length),
                       "read_into_vec", offset)
    /\ BothStep

PartSeekOffsets == {0, 1, GROUP_DATA_SIZE - 1, GROUP_DATA_SIZE}
PartReadLens == {1, BLOCK_DATA_SIZE, BLOCK_DATA_SIZE + 1}

SeekStartBoth == \E off \in PartSeekOffsets : DoSeekBoth("Start", off)
SeekCurrentBoth == \E off \in CurrentOffsets : DoSeekBoth("Current", off)
SeekEndBoth == \E off \in {-1, 0, 1} : DoSeekBoth("End", off)
ReadBoth == \E len \in PartReadLens : DoReadBoth(len)
ReadIntoVecBoth == \E offset \in VecOffsets, length \in VecLens :
                       DoReadIntoVecBoth(offset, length)

NextPart ==
    \/ SeekStartBoth
    \/ SeekCurrentBoth
    \/ SeekEndBoth
    \/ ReadBoth
    \/ ReadIntoVecBoth

SpecPart == InitPart /\ [][NextPart]_vars

\* --------------------------------------------------------------- read_dol
\* u32::MAX for the section offsets and sizes of a DOL header, and the cells
\* a serialized DOLHeader takes
U32_MAX == 7
DOL_HEADER_SIZE == 1
MaxOpsDol == 2

\* seek(SeekFrom::Start(pos)) on a stream value
SeekTo(s, pos) == [s EXCEPT !.current_position = seek(s.current_position, "Start", pos)]

\* u32::saturating_add
saturating_add(a, b) == Min(a + b, U32_MAX)

\* sizes.reduce(|accum, item| accum.saturating_add(item)) from accum on
RECURSIVE Reduce(_, _, _)
Reduce(sizes, i, accum) ==
    IF i > Len(sizes) THEN accum
    ELSE Reduce(sizes, i + 1, saturating_add(accum, sizes[i]))

\* dol_size of read_dol: text_off[0] and the section sizes (text_sizes
\* chained with data_sizes) of the header
DolSize(header) ==
    saturating_add(header.text_off, Reduce(header.sizes, 2, header.sizes[1]))

\* the headers read_be may parse out of the cells at dol_offset
DolHeaders ==
    {[text_off |-> 1, sizes |-> <<a, b>>] : a \in {0, 2, 3}, b \in {0, 3, 4, U32_MAX}}

\* std's read_exact over Read::read: read until n cells are there, Ok(0)
\* ends it with UnexpectedEof.  Returns [s, ok, data].
RECURSIVE read_exact(_, _, _)
ReadExactNext(r, n, data) ==
    IF ~r.ok THEN [s |-> r.s, ok |-> FALSE, data |-> data]
    ELSE IF Len(r.data) = 0
    THEN [s |-> [r.s EXCEPT !.err = TRUE, !.kind = "UnexpectedEof"],
          ok |-> FALSE, data |-> data]
    ELSE read_exact(r.s, n - Len(r.data), data \o r.data)

read_exact(s, n, data) ==
    IF n = 0 THEN [s |-> s, ok |-> TRUE, data |-> data]
    ELSE ReadExactNext(read(s, n), n, data)

\* what read_dol does once the header is read (r is what read_exact
\* returned): Err if dol_size is u32::MAX, else read_into_vec
ReadDolBody(r, dol_offset, dol_size) ==
    IF ~r.ok THEN [s |-> r.s, ok |-> FALSE, data |-> <<>>]
    ELSE IF dol_size = U32_MAX
    THEN [s |-> [r.s EXCEPT !.err = TRUE, !.kind = "Custom"],
          ok |-> FALSE, data |-> <<>>]
    ELSE read_into_vec(r.s, dol_offset, dol_size)

\* read_dol(dol_offset), header being what read_be parses
read_dol(s, dol_offset, header) ==
    ReadDolBody(read_exact(SeekTo(s, dol_offset), DOL_HEADER_SIZE, <<>>),
                dol_offset, DolSize(header))

DoReadDol(dol_offset, header) ==
    /\ left > 0
    /\ \E r \in {read_dol(Stream("none"), dol_offset, header)} :
         /\ Commit(r.s, "none")
         /\ op' = [Ret("read_dol", r.ok, Len(r.data), r.data, "none",
                       current_position, r.s)
                   EXCEPT !.req = header.text_off + header.sizes[1] + header.sizes[2],
                          !.off = dol_offset]
    /\ hist' = ""
    /\ wr' = NoWrite
    /\ run' = "no"
    /\ UNCHANGED shadow

ReadDol == \E dol_offset \in VecOffsets, header \in DolHeaders :
               DoReadDol(dol_offset, header)

InitDol == InitReadonly(MaxOpsDol) \/ InitWith(MaxOpsDol)

NextDol ==
    \/ SeekStart
    \/ Read
    \/ ReadDol

SpecDol == InitDol /\ [][NextDol]_vars

\* ---------------------------------------------------------- add_partition
\* The container is the data area of the partition window (what the stream
\* sees from its data_offset on); the header, TMD, certificate chain and H3
\* table that add_partition writes before that offset are not part of it.

\* logical offsets and alignments of add_partition, in cells
BI2_OFFSET == 1
APPLOADER_OFFSET == 2
ALIGN_HEADER == 2
ALIGN_DATA == 4

\* where the first partition goes, and where in a partition its encrypted
\* data starts
FIRST_PARTITION_OFFSET == 327680
ENCRYPTED_DATA_OFFSET == 131072
\* where finish puts the partition count and the partition entries
PARTITION_INFO_OFFSET == 262144
PARTITION_ENTRIES_OFFSET == 262176
\* the region block of the disc
REGION_OFFSET == 319488
REGION_SIZE == 32
\* the partition kinds of WiiPartType, and a kind outside them
KnownKinds == {"Data", "Update", "Channel"}
PartTypes == KnownKinds \cup {"Unknown"}

\* the TMD buffer in cells: the cells that are zeroed (skip, take), where the
\* signed part starts, the brute-force counter, the content size, the content
\* hash, and the length of the buffer
TMD_ZERO_SKIP == 1
TMD_ZERO_TAKE == 2
TMD_SIGNED_OFFSET == 4
TMD_COUNTER_OFFSET == 5
TMD_SIZE_OFFSET == 6
TMD_HASH_OFFSET == 7
TMD_LEN == 8
\* the end of the counter range 0 .. u64::MAX (exclusive), one cell wide
COUNTER_END == 255
\* hash[0] of a digest cell d is d \div HASH_REST
HASH_REST == 16
\* the TMDs add_partition may be given, as fills of the serialized buffer
TmdFills == {0, 3}

\* what the partition definition may return: files per FST, cells per file,
\* padding per file, cells of the apploader and of the DOL
MaxFiles == 2
FileLens == {0, 1, 2, U32_MAX + 1}
Paddings == {0, 2}
Bi2Lens == {1, 2}
ApploaderLens == {1, 2}
DolLens == {1, 2}

\* align_next(num, alignment), alignment being a power of two
align_next(num, alignment) == ((num + alignment - 1) \div alignment) * alignment

\* the cells of a piece of input: values no other piece holds
Bytes(tag, len) == [i \in 1 .. len |-> 16 * tag + i]

\* std's write_all over Write::write: write until the buffer is empty, Err
\* from write ends it, Ok(0) ends it with WriteZero.  Returns [s, ok].
RECURSIVE write_all(_, _)

\* r being what write(s, buf) returned
WriteAllNext(r, buf) ==
    IF ~r.ok THEN [s |-> r.s, ok |-> FALSE]
    ELSE IF r.n = 0
    THEN [s |-> [r.s EXCEPT !.err = TRUE, !.kind = "WriteZero"], ok |-> FALSE]
    ELSE write_all(r.s, SubSeq(buf, r.n + 1, Len(buf)))

write_all(s, buf) ==
    IF buf = <<>> THEN [s |-> s, ok |-> TRUE]
    ELSE WriteAllNext(write(s, buf), buf)

\* seek(Start(pos)) and then, unless the partition definition returned Err
\* (got = FALSE), write_all(buf)
WriteAllAt(s, pos, buf, got) ==
    IF got THEN write_all(SeekTo(s, pos), buf)
    ELSE [s |-> SeekTo(s, pos), ok |-> FALSE]

\* shadow after buf was written at pos
Overlay(sh, pos, buf) ==
    [p \in Positions |->
        IF p >= pos /\ p < pos + Len(buf) THEN buf[p - pos + 1] ELSE sh[p]]

\* WiiDiscBuilder::create: no partition yet, current_data_offset = 0x50000.
\* The stream variables are those of a stream over an empty window.
InitBuild ==
    /\ pre_groups = 0
    /\ file = InitFiles[0]
    /\ h3 = InitH3(0)
    /\ filled_groups = 0
    /\ open_mode = "ReadWrite"
    /\ max_group = None
    /\ current_group = None
    /\ group_cache = ZeroGroup
    /\ is_dirty = FALSE
    /\ current_position = 0
    /\ op = NoOp
    /\ wr = NoWrite
    /\ shadow = [p \in Positions |-> None]
    /\ written_back = [g \in Groups |-> [done |-> FALSE, pre |-> <<>>]]
    /\ hist = ""
    /\ run = "no"
    /\ nfaults = 0
    /\ left = 0
    /\ builder = [NoBuilder EXCEPT !.pc = "idle",
                                   !.current_data_offset = FIRST_PARTITION_OFFSET]
    /\ part = NoPart

\* what a step of add_partition leaves of the other variables
BuilderStep ==
    /\ op' = [NoOp EXCEPT !.name = "add_partition"]
    /\ wr' = NoWrite
    /\ hist' = ""
    /\ run' = "no"
    /\ UNCHANGED <<pre_groups, nfaults, left, part>>

\* a step that calls the partition definition and writes nothing
Asked(call, got, next, files) ==
    /\ builder' = [builder EXCEPT !.calls = Append(@, call),
                                  !.pc = IF got THEN next ELSE "failed",
                                  !.total_files = IF got THEN files ELSE @,
                                  !.files_left = IF got THEN files ELSE @]
    /\ BuilderStep
    /\ UNCHANGED <<file, h3, open_mode, max_group, current_group, group_cache,
                   is_dirty, current_position, filled_groups, written_back,
                   shadow>>

\* a step that left the stream as r.s, having written buf at pos if r.ok
Put(r, call, pos, buf, next) ==
    /\ StreamIs(r.s)
    /\ shadow' = IF r.ok THEN Overlay(shadow, pos, buf) ELSE shadow
    /\ builder' = [builder EXCEPT !.calls = Append(@, call),
                                  !.regions = IF r.ok
                                              THEN Append(@, <<call, pos, pos + Len(buf)>>)
                                              ELSE @,
                                  !.pc = IF r.ok THEN next ELSE "failed"]
    /\ BuilderStep

\* the builder is between two calls
Idle == builder.pc \in {"idle", "done", "failed"}

\* add_partition up to create_write: IOWindow::new at current_data_offset
\* (win = FALSE: it returned Err), the entry pushed, the placeholder header,
\* the certificate chain, the zeroed h3 and the stream over the window.  The
\* window holds what an earlier call wrote at the same offset.  One call is
\* followed step by step; AddPartitionCall follows several on one disc.
AddPartition ==
    /\ Idle
    /\ builder.returns = <<>>
    /\ \E part_type \in PartTypes, win \in BOOLEAN :
         \E part_data_off \in {builder.current_data_offset} :
            /\ file' = IF ~win \/ builder.window_off = part_data_off
                       THEN file ELSE InitFiles[0]
            /\ h3' = IF win THEN InitH3(0) ELSE h3
            /\ filled_groups' = IF win THEN 0 ELSE filled_groups
            /\ max_group' = IF win THEN None ELSE max_group
            /\ current_group' = IF win THEN None ELSE current_group
            /\ group_cache' = IF win THEN ZeroGroup ELSE group_cache
            /\ is_dirty' = IF win THEN FALSE ELSE is_dirty
            /\ current_position' = IF win THEN 0 ELSE current_position
            /\ shadow' = IF win THEN [p \in Positions |-> None] ELSE shadow
            /\ written_back' = IF win
                               THEN [g \in Groups |-> [done |-> FALSE, pre |-> <<>>]]
                               ELSE written_back
            /\ builder' = IF win
                          THEN [NoBuilder EXCEPT
                                  !.pc = "get_fst",
                                  !.current_data_offset = part_data_off,
                                  !.window_off = part_data_off,
                                  !.partitions = Append(builder.partitions,
                                                        <<part_data_off, part_type>>),
                                  !.returns = Append(builder.returns,
                                                     [kind |-> part_type,
                                                      off |-> part_data_off,
                                                      pushed |-> TRUE, ok |-> FALSE,
                                                      groups |-> 0])]
                          ELSE [builder EXCEPT
                                  !.pc = "failed",
                                  !.returns = Append(builder.returns,
                                                     [kind |-> part_type,
                                                      off |-> part_data_off,
                                                      pushed |-> FALSE, ok |-> FALSE,
                                                      groups |-> 0])]
            /\ BuilderStep
            /\ UNCHANGED open_mode

\* partition_def.get_fst(), the files counted, FstToBytes::try_from
GetFst ==
    /\ builder.pc = "get_fst"
    /\ \E got \in BOOLEAN, files \in 0 .. MaxFiles :
         Asked("get_fst", got, "get_disc_header", files)

\* partition_def.get_disc_header()
GetDiscHeader ==
    /\ builder.pc = "get_disc_header"
    /\ \E got \in BOOLEAN :
         Asked("get_disc_header", got, "get_bi2", builder.total_files)

\* seek(0x440), write_all(get_bi2())
WriteBi2 ==
    /\ builder.pc = "get_bi2"
    /\ \E got \in BOOLEAN, len \in Bi2Lens :
         \E r \in {WriteAllAt(Stream("none"), BI2_OFFSET, Bytes(2, len), got)} :
            Put(r, "get_bi2", BI2_OFFSET, Bytes(2, len), "get_apploader")

\* seek(0x2440), write_all(get_apploader())
WriteApploader ==
    /\ builder.pc = "get_apploader"
    /\ \E got \in BOOLEAN, len \in ApploaderLens :
         \E r \in {WriteAllAt(Stream("none"), APPLOADER_OFFSET, Bytes(3, len), got)} :
            Put(r, "get_apploader", APPLOADER_OFFSET, Bytes(3, len), "get_dol")

\* dol_off = align_next(stream_position, 0x20), seek, write_all(get_dol())
WriteDol ==
    /\ builder.pc = "get_dol"
    /\ \E got \in BOOLEAN, len \in DolLens :
         \E dol_off \in {align_next(current_position, ALIGN_HEADER)} :
            \E r \in {WriteAllAt(Stream("none"), dol_off, Bytes(4, len), got)} :
               Put(r, "get_dol", dol_off, Bytes(4, len), "write_fst")

\* the temporary FST at fst_off = align_next(stream_position, 0x20), the
\* padding after it, and the seek to data_start
WriteFst ==
    /\ builder.pc = "write_fst"
    /\ \E fst_off \in {align_next(current_position, ALIGN_HEADER)} :
         \E r \in {WriteAllAt(Stream("none"), fst_off, Bytes(5, 1) \o <<0>>, TRUE)} :
            /\ StreamIs(IF r.ok
                        THEN SeekTo(r.s, align_next(r.s.current_position, ALIGN_DATA))
                        ELSE r.s)
            /\ shadow' = IF r.ok
                         THEN Overlay(shadow, fst_off, Bytes(5, 1) \o <<0>>)
                         ELSE shadow
            /\ builder' = [builder EXCEPT
                              !.fst_off = fst_off,
                              !.regions = IF r.ok
                                          THEN Append(@, <<"fst", fst_off,
                                                           r.s.current_position>>)
                                          ELSE @,
                              !.pc = IF ~r.ok THEN "failed"
                                     ELSE IF builder.files_left = 0 THEN "finish"
                                     ELSE "get_file_data"]
            /\ BuilderStep

\* progress_callback(processed_files, total_files) as the partition definition
\* receives it, with the number of calls the definition had served before
Told(processed_files) ==
    <<processed_files, builder.total_files, Len(builder.calls)>>

\* *offset = stream_position and *size = data.len() as u32, the entry of
\* the file in the FST
Patched(position, len) == [offset |-> position, size |-> len % (U32_MAX + 1)]

\* WriteFile writing a file's data without asking the partition definition
WriteFileWithoutAsking ==
    /\ builder.pc = "get_file_data"
    /\ \E got \in BOOLEAN, len \in FileLens, padding \in Paddings :
         /\ current_position + len <= MaxGroups * GROUP_DATA_SIZE
         /\ \E r \in {WriteAllAt(Stream("none"), current_position,
                               Bytes(6 + builder.files_left, len), got)} :
            /\ StreamIs(IF r.ok
                        THEN SeekTo(r.s, align_next(r.s.current_position + padding,
                                                    ALIGN_DATA))
                        ELSE r.s)
            /\ shadow' = IF r.ok
                         THEN Overlay(shadow, current_position,
                                      Bytes(6 + builder.files_left, len))
                         ELSE shadow
            /\ builder' = [builder EXCEPT
                              !.progress = Append(@, Told(builder.processed_files)),
                              !.processed_files = @ + 1,
                              !.regions = IF r.ok
                                          THEN Append(@, <<"file", current_position,
                                                           current_position + len>>)
                                          ELSE @,
                              !.fst_entries = IF got
                                              THEN Append(@, Patched(current_position, len))
                                              ELSE @,
                              !.files_left = IF r.ok THEN @ - 1 ELSE @,
                              !.pc = IF ~r.ok THEN "failed"
                                     ELSE IF builder.files_left = 1 THEN "finish"
                                     ELSE "get_file_data"]
            /\ BuilderStep

\* WriteFile counting the file before it tells the progress
WriteFileCountsFirst ==
    /\ builder.pc = "get_file_data"
    /\ \E got \in BOOLEAN, len \in FileLens, padding \in Paddings :
         /\ current_position + len <= MaxGroups * GROUP_DATA_SIZE
         /\ \E r \in {WriteAllAt(Stream("none"), current_position,
                               Bytes(6 + builder.files_left, len), got)} :
            /\ StreamIs(IF r.ok
                        THEN SeekTo(r.s, align_next(r.s.current_position + padding,
                                                    ALIGN_DATA))
                        ELSE r.s)
            /\ shadow' = IF r.ok
                         THEN Overlay(shadow, current_position,
                                      Bytes(6 + builder.files_left, len))
                         ELSE shadow
            /\ builder' = [builder EXCEPT
                              !.progress = Append(@, Told(builder.processed_files + 1)),
                              !.processed_files = @ + 1,
                              !.regions = IF r.ok
                                          THEN Append(@, <<"file", current_position,
                                                           current_position + len>>)
                                          ELSE @,
                              !.fst_entries = IF got
                                              THEN Append(@, Patched(current_position, len))
                                              ELSE @,
                              !.calls = Append(@, "get_file_data"),
                              !.files_left = IF r.ok THEN @ - 1 ELSE @,
                              !.pc = IF ~r.ok THEN "failed"
                                     ELSE IF builder.files_left = 1 THEN "finish"
                                     ELSE "get_file_data"]
            /\ BuilderStep

\* the callback of callback_all_files_mut for one file: progress_callback,
\* processed_files += 1, get_file_data, write_all at the stream position,
\* seek to the aligned next start
WriteFile ==
    /\ builder.pc = "get_file_data"
    /\ \E got \in BOOLEAN, len \in FileLens, padding \in Paddings :
         /\ current_position + len <= MaxGroups * GROUP_DATA_SIZE
         /\ \E r \in {WriteAllAt(Stream("none"), current_position,
                               Bytes(6 + builder.files_left, len), got)} :
            /\ StreamIs(IF r.ok
                        THEN SeekTo(r.s, align_next(r.s.current_position + padding,
                                                    ALIGN_DATA))
                        ELSE r.s)
            /\ shadow' = IF r.ok
                         THEN Overlay(shadow, current_position,
                                      Bytes(6 + builder.files_left, len))
                         ELSE shadow
            /\ builder' = [builder EXCEPT
                              !.progress = Append(@, Told(builder.processed_files)),
                              !.processed_files = @ + 1,
                              !.regions = IF r.ok
                                          THEN Append(@, <<"file", current_position,
                                                           current_position + len>>)
                                          ELSE @,
                              !.fst_entries = IF got
                                              THEN Append(@, Patched(current_position, len))
                                              ELSE @,
                              !.calls = Append(@, "get_file_data"),
                              !.files_left = IF r.ok THEN @ - 1 ELSE @,
                              !.pc = IF ~r.ok THEN "failed"
                                     ELSE IF builder.files_left = 1 THEN "finish"
                                     ELSE "get_file_data"]
            /\ BuilderStep

\* Cursor::new(&mut tmd_buf).write_be(&tmd): the serialized TMD
TmdBuf(fill) == [i \in 0 .. TMD_LEN - 1 |-> (fill + 37 * i) % Byte]

\* FixTmd hashing the H3 table as it was before the stream filled it
FixTmdOfEmptyTable(tmd_buf, table, total_size) ==
    [i \in 0 .. TMD_LEN - 1 |->
        IF i >= TMD_ZERO_SKIP /\ i < TMD_ZERO_SKIP + TMD_ZERO_TAKE THEN 0
        ELSE IF i = TMD_HASH_OFFSET THEN Sha1(InitH3(0), H3_ENTRIES)
        ELSE IF i = TMD_SIZE_OFFSET THEN total_size % Byte
        ELSE tmd_buf[i]]

\* the content hash replaced by Sha1(h3), the content size by total_size,
\* then the cells skip(4).take(0x100) zeroed
FixTmd(tmd_buf, table, total_size) ==
    [i \in 0 .. TMD_LEN - 1 |->
        IF i >= TMD_ZERO_SKIP /\ i < TMD_ZERO_SKIP + TMD_ZERO_TAKE THEN 0
        ELSE IF i = TMD_HASH_OFFSET THEN Sha1(table, H3_ENTRIES)
        ELSE IF i = TMD_SIZE_OFFSET THEN total_size % Byte
        ELSE tmd_buf[i]]

\* hash[0] of the digest of tmd_buf[0x140..]
TmdHashFirstByte(tmd_buf) ==
    Sha1From(tmd_buf, TMD_LEN, TMD_SIGNED_OFFSET, 7) \div HASH_REST

\* BruteForce giving up after its first attempt
BruteForceOnce(tmd_buf, i) == [tmd_buf EXCEPT ![TMD_COUNTER_OFFSET] = i]

\* for i in i .. u64::MAX: the counter set to i, the loop left when hash[0]
\* is 0, or when the range is used up
RECURSIVE BruteForce(_, _)
BruteForce(tmd_buf, i) ==
    IF i = COUNTER_END THEN tmd_buf
    ELSE IF TmdHashFirstByte([tmd_buf EXCEPT ![TMD_COUNTER_OFFSET] = i]) = 0
    THEN [tmd_buf EXCEPT ![TMD_COUNTER_OFFSET] = i]
    ELSE BruteForce([tmd_buf EXCEPT ![TMD_COUNTER_OFFSET] = i], i + 1)

\* groups and total_size from the stream position, the FST written again at
\* fst_off, the disc header at 0, flush; then the H3 table written at 0x8000,
\* data_size = total_size, the TMD fixed, brute-forced and written at tmd_off
Finish ==
    /\ builder.pc = "finish"
    /\ \E groups \in {(current_position + GROUP_DATA_SIZE - 1) \div GROUP_DATA_SIZE},
          fill \in TmdFills :
         \E r1 \in {WriteAllAt(Stream("none"), builder.fst_off, Bytes(6, 1), TRUE)} :
            \E r2 \in {IF r1.ok THEN WriteAllAt(r1.s, 0, Bytes(1, 1), TRUE) ELSE r1} :
               \E r3 \in {IF r2.ok THEN flush(r2.s) ELSE r2} :
                  /\ StreamIs(r3.s)
                  /\ shadow' = IF r3.ok
                               THEN Overlay(Overlay(shadow, builder.fst_off, Bytes(6, 1)),
                                            0, Bytes(1, 1))
                               ELSE shadow
                  /\ builder' = [builder EXCEPT
                                    !.data_size = IF r3.ok THEN groups * GROUP_DATA_SIZE ELSE @,
                                    !.h3_table = IF r3.ok THEN r3.s.h3 ELSE @,
                                    !.regions = IF r3.ok
                                                THEN @ \o <<<<"fst_final", builder.fst_off,
                                                              builder.fst_off
                                                                + Len(Bytes(6, 1))>>,
                                                            <<"header", 0,
                                                              Len(Bytes(1, 1))>>>>
                                                ELSE @,
                                    !.tmd_in = TmdBuf(fill),
                                    !.tmd = IF r3.ok
                                            THEN BruteForce(
                                                   FixTmd(TmdBuf(fill), r3.s.h3,
                                                          groups * GROUP_DATA_SIZE), 0)
                                            ELSE @,
                                    !.current_data_offset =
                                        @ + ENCRYPTED_DATA_OFFSET + groups * GROUP_SIZE,
                                    !.returns[Len(builder.returns)] =
                                        [@ EXCEPT !.ok = r3.ok, !.groups = groups],
                                    !.pc = IF r3.ok THEN "done" ELSE "failed"]
                  /\ BuilderStep

\* finish: the partition count and the entries offset >> 2 at 0x40000, the
\* entries at 0x40020
FinishDisc ==
    /\ Idle
    /\ builder' = [builder EXCEPT
                      !.pc = "finished",
                      !.table = [at |-> PARTITION_INFO_OFFSET,
                                 count |-> Len(builder.partitions),
                                 entries_off |-> PARTITION_ENTRIES_OFFSET \div 4,
                                 entries_at |-> PARTITION_ENTRIES_OFFSET,
                                 entries |-> builder.partitions]]
    /\ BuilderStep
    /\ UNCHANGED <<file, h3, open_mode, max_group, current_group, group_cache,
                   is_dirty, current_position, filled_groups, written_back,
                   shadow>>

\* ------------------------------------------------- the disc write cursor
\* add_partition calls per disc when only the cursor is followed
MaxAdds == 2
\* how an add_partition call ends: IOWindow::new returns Err ("window"), a
\* call of the definition or a write returns Err before the cursor is
\* advanced ("early"), a write returns Err after it ("late"), or Ok
Outcomes == {"window", "early", "late", "ok"}
\* the groups an add_partition counts: at least the group of the header
GroupCounts == 1 .. MaxGroups + 1

\* the mistake of advancing the cursor by the encrypted data only
add_partition_data_only(b, part_type, outcome, groups) ==
    [b EXCEPT
       !.partitions = IF outcome = "window" THEN @
                      ELSE Append(@, <<b.current_data_offset, part_type>>),
       !.returns = Append(@, [kind |-> part_type, off |-> b.current_data_offset,
                              pushed |-> outcome # "window",
                              ok |-> outcome = "ok",
                              groups |-> IF outcome \in {"late", "ok"}
                                         THEN groups ELSE 0]),
       !.current_data_offset = IF outcome \in {"late", "ok"}
                               THEN @ + groups * GROUP_SIZE
                               ELSE @,
       !.pc = IF outcome = "ok" THEN "done" ELSE "failed"]

\* add_partition as the disc builder sees it: the entry pushed at the
\* cursor once the window is made, the cursor advanced by the partition
\* header area and the groups counted, once the file data is written
add_partition(b, part_type, outcome, groups) ==
    [b EXCEPT
       !.partitions = IF outcome = "window" THEN @
                      ELSE Append(@, <<b.current_data_offset, part_type>>),
       !.returns = Append(@, [kind |-> part_type, off |-> b.current_data_offset,
                              pushed |-> outcome # "window",
                              ok |-> outcome = "ok",
                              groups |-> IF outcome \in {"late", "ok"}
                                         THEN groups ELSE 0]),
       !.current_data_offset = IF outcome \in {"late", "ok"}
                               THEN @ + ENCRYPTED_DATA_OFFSET + groups * GROUP_SIZE
                               ELSE @,
       !.pc = IF outcome = "ok" THEN "done" ELSE "failed"]

\* one whole add_partition call on the disc; what it writes inside the
\* partition is followed by NextBuild
AddPartitionCall ==
    /\ Idle
    /\ Len(builder.returns) < MaxAdds
    /\ \E part_type \in PartTypes, outcome \in Outcomes, groups \in GroupCounts :
         builder' = add_partition(builder, part_type, outcome, groups)
    /\ BuilderStep
    /\ UNCHANGED <<file, h3, open_mode, max_group, current_group, group_cache,
                   is_dirty, current_position, filled_groups, written_back,
                   shadow>>

\* the max_group the partition reader opens its stream with
OpenPartitionMaxGroup(data_size) == data_size \div GROUP_SIZE

\* create_readonly(file, data_offset, encryption_key, max_group) as a
\* stream value
create_readonly(f, mg) ==
    [Stream("none") EXCEPT !.file = f, !.open_mode = "Readonly",
                           !.max_group = mg, !.current_group = None,
                           !.group_cache = ZeroGroup, !.is_dirty = FALSE,
                           !.current_position = 0, !.filled_groups = 0]

\* the stream the partition reader opens over the built partition
PartitionStream ==
    create_readonly(file, OpenPartitionMaxGroup(builder.data_size))

\* read_parts: the entries of the partition table of the disc
ReadParts(table) == SubSeq(table.entries, 1, table.count)

\* self.partitions.iter().find(|p| p.part_type == *part_type): the first
\* entry of the kind as <<entry>>, or <<>> for None
FindPartition(partitions, part_type) ==
    IF \E i \in 1 .. Len(partitions) : partitions[i][2] = part_type
    THEN <<partitions[CHOOSE i \in 1 .. Len(partitions) :
                         /\ partitions[i][2] = part_type
                         /\ \A j \in 1 .. i - 1 : partitions[j][2] # part_type]>>
    ELSE <<>>

\* open_partition_stream(part_type) on a reader of the finished disc: unwrap
\* panics on None, otherwise the call is PartitionReader::open_partition at
\* the entry's offset
OpenPartitionStream ==
    /\ builder.pc = "finished"
    /\ \E part_type \in PartTypes :
         \E partition \in {FindPartition(ReadParts(builder.table), part_type)} :
            builder' = [builder EXCEPT
                          !.opened = [kind |-> part_type,
                                      outcome |-> IF partition = <<>> THEN "panic"
                                                  ELSE "open_partition"]]
    /\ BuilderStep
    /\ UNCHANGED <<file, h3, open_mode, max_group, current_group, group_cache,
                   is_dirty, current_position, filled_groups, written_back,
                   shadow>>

\* the --section arguments of the tool
Sections == {"DATA", "data", "CHANNEL", "UPDATE", "GAME"}

\* section.to_ascii_uppercase()
to_ascii_uppercase(section) == IF section = "data" THEN "DATA" ELSE section

\* the match on the upper-cased section: the kind, or "" for InvalidSection
SectionKind(name) ==
    IF name = "DATA" THEN "Data"
    ELSE IF name = "CHANNEL" THEN "Channel"
    ELSE IF name = "UPDATE" THEN "Update"
    ELSE ""

\* Commands::ExtractSys on a disc with these partitions: the section is
\* matched, an entry of its kind is looked up, then the stream of the Data
\* partition is opened and extract_system_files runs on it
extract_sys(partitions, section) ==
    IF SectionKind(to_ascii_uppercase(section)) = ""
    THEN [section |-> section, outcome |-> "InvalidSection", kind |-> ""]
    ELSE IF FindPartition(partitions, SectionKind(to_ascii_uppercase(section))) = <<>>
    THEN [section |-> section, outcome |-> "SectionNotFound", kind |-> ""]
    ELSE IF FindPartition(partitions, "Data") = <<>>
    THEN [section |-> section, outcome |-> "panic", kind |-> ""]
    ELSE [section |-> section, outcome |-> "extracted",
          kind |-> FindPartition(partitions, "Data")[1][2]]

\* one run of extract-sys on the finished disc
ExtractSys ==
    /\ builder.pc = "finished"
    /\ builder.extracted.section = ""
    /\ \E section \in Sections :
         builder' = [builder EXCEPT
                       !.extracted = extract_sys(ReadParts(builder.table), section)]
    /\ BuilderStep
    /\ UNCHANGED <<file, h3, open_mode, max_group, current_group, group_cache,
                   is_dirty, current_position, filled_groups, written_back,
                   shadow>>

\* the disc builder over several partitions, and the tool on its disc
NextDisc == AddPartitionCall \/ FinishDisc \/ ExtractSys

SpecDisc == InitBuild /\ [][NextDisc]_vars

NextBuild ==
    \/ AddPartition
    \/ GetFst
    \/ GetDiscHeader
    \/ WriteBi2
    \/ WriteApploader
    \/ WriteDol
    \/ WriteFst
    \/ WriteFile
    \/ Finish
    \/ FinishDisc
    \/ OpenPartitionStream

SpecBuild == InitBuild /\ [][NextBuild]_vars


\* ------------------------------------------------------------ properties
\* seek(Start(p)) then read(len) on the stream as it is: the result of read
ReadBack(p, len) ==
    read([Stream("none") EXCEPT !.current_position = seek(current_position, "Start", p)],
         len)

\* the last write wrote its whole buffer
WroteAll == wr.n = Len(wr.buf) /\ wr.n >= 1

\* the last write lies within one group
WroteInOneGroup ==
    /\ wr.n >= 1
    /\ wr.pos \div GROUP_DATA_SIZE = (wr.pos + wr.n - 1) \div GROUP_DATA_SIZE

\* C1: seek(p), write(B), seek(p), read(|B|) returns exactly B, also when B
\* spans more than one group.
C1_RoundTrip ==
    (hist = "wsr" /\ WroteAll) => (op.ok /\ op.data = wr.buf)

\* is logical position p outside the range the last write wrote
OutsideWrite(p) == p < wr.pos \/ p >= wr.pos + wr.n

\* C2: a write into a group that exists on disk and is not fully covered
\* changes no logical byte outside the written range: after the next flush
\* every other byte of the group reads back as it was before the write.
C2_Frame ==
    (/\ hist = "wf"
     /\ WroteInOneGroup
     /\ wr.pos \div GROUP_DATA_SIZE <= wr.filled
     /\ wr.view # <<>>
     /\ wr.n < GROUP_DATA_SIZE)
    => \A v \in {GroupView(Stream("none"), wr.pos \div GROUP_DATA_SIZE)} :
         /\ v # <<>>
         /\ \A i \in 1 .. GROUP_DATA_SIZE :
              OutsideWrite((wr.pos \div GROUP_DATA_SIZE) * GROUP_DATA_SIZE + i - 1)
              => v[i] = wr.view[i]

\* the ranges read back after the flush
ReadBackLens == {1, BLOCK_DATA_SIZE + 1, GROUP_DATA_SIZE + 1}

\* the groups that hold a written position
WrittenGroups == {p \div GROUP_DATA_SIZE : p \in {q \in Positions : shadow[q] # None}}

\* C3: from a fresh stream (empty container, no max group), after seeks and
\* writes and then one flush, reading a range back returns for every
\* written position the byte of the most recent write covering it.
C3_FreshWriteFlushReadBack ==
    (pre_groups = 0 /\ max_group = None /\ run = "swf")
    => \A p \in Positions, len \in ReadBackLens :
         (\E g \in WrittenGroups : (p + len - 1) \div GROUP_DATA_SIZE <= g)
         => \A r \in {ReadBack(p, len)} :
              /\ r.ok
              /\ Len(r.data) = len
              /\ \A i \in 1 .. len :
                   shadow[p + i - 1] # None => r.data[i] = shadow[p + i - 1]

C3_Witness ==
    /\ pre_groups = 0 /\ max_group = None /\ run = "swf"
    /\ shadow[0] # None
    /\ shadow[GROUP_DATA_SIZE - 1] # None
    /\ shadow[GROUP_DATA_SIZE] # None
    /\ shadow[0] < shadow[GROUP_DATA_SIZE]
    /\ ReadBack(GROUP_DATA_SIZE - 1, BLOCK_DATA_SIZE + 1).data
         = <<shadow[GROUP_DATA_SIZE - 1], shadow[GROUP_DATA_SIZE],
             shadow[GROUP_DATA_SIZE + 1]>>

\* decrypt_verify_group's decryption: in every block the data under the IV
\* read from the encrypted header, then the header under a zero IV
DecryptGroup(key, buffer) ==
    Eval([i \in 0 .. GROUP_SIZE - 1 |->
        IF InData(i)
        THEN CbcDecryptCell(key,
                 buffer[(i \div BLOCK_SIZE) * BLOCK_SIZE + IV_OFFSET], buffer,
                 (i \div BLOCK_SIZE) * BLOCK_SIZE + BLOCK_DATA_OFFSET, i)
        ELSE CbcDecryptCell(key, 0, buffer, (i \div BLOCK_SIZE) * BLOCK_SIZE, i)])

\* the arrays a decrypted block (c of subgroup s) carries, and its slices
H0Stored(plain, s, c) ==
    [j \in 0 .. H0_COUNT - 1 |-> plain[BlockBase(s, c) + H0_OFFSET + j]]
H1Stored(plain, s, c) ==
    [k \in 0 .. BLOCKS_PER_SUBGROUP - 1 |-> plain[BlockBase(s, c) + H1_OFFSET + k]]
H2Stored(plain, s, c) ==
    [k \in 0 .. SUBGROUPS - 1 |-> plain[BlockBase(s, c) + H2_OFFSET + k]]
SliceOf(plain, s, c, j) ==
    [i \in 0 .. SLICE_SIZE - 1 |->
        plain[BlockBase(s, c) + BLOCK_DATA_OFFSET + j * SLICE_SIZE + i]]

\* the hashes of a decrypted group are consistent, up to the H3 entry h3g
HashesConsistent(plain, h3g) ==
    /\ \A s \in 0 .. SUBGROUPS - 1, c \in 0 .. BLOCKS_PER_SUBGROUP - 1 :
         /\ \A j \in 0 .. H0_COUNT - 1 :
              H0Stored(plain, s, c)[j] = Sha1(SliceOf(plain, s, c, j), SLICE_SIZE)
         /\ \A k \in 0 .. BLOCKS_PER_SUBGROUP - 1 :
              /\ H1Stored(plain, s, c)[k] = H1Stored(plain, s, 0)[k]
              /\ H1Stored(plain, s, c)[k] = Sha1(H0Stored(plain, s, k), H0_COUNT)
         /\ \A k \in 0 .. SUBGROUPS - 1 :
              /\ H2Stored(plain, s, c)[k] = H2Stored(plain, 0, 0)[k]
              /\ H2Stored(plain, s, c)[k]
                   = Sha1(H1Stored(plain, k, 0), BLOCKS_PER_SUBGROUP)
    /\ h3g = Sha1(H2Stored(plain, 0, 0), SUBGROUPS)

\* C4: after a flush, every group written back through the stream has, as
\* stored in the container and decrypted, consistent H0, H1 and H2 arrays,
\* and its H3 entry is the digest of its H2 array.
C4_HashesConsistent ==
    (op.name = "flush" /\ op.ok)
    => \A g \in Groups :
         written_back[g].done
         => /\ FileHasGroup(file, g)
            /\ HashesConsistent(
                   DecryptGroup(encryption_key, FileGroup(file, g)), h3[g])

C4_Witness ==
    /\ op.name = "flush" /\ op.ok
    /\ hist = "wf"
    /\ \A g \in Groups : written_back[g].done /\ FileHasGroup(file, g)

\* C5: for every group written back, a cache-in of it from the container
\* restores exactly the data regions the cache held before the write-back.
C5_CacheInRestoresData ==
    \A g \in Groups :
        written_back[g].done
        => \A l \in {do_load_group(Stream("none"), g)} :
             /\ ~l.err
             /\ l.current_group = g
             /\ DataOf(l.group_cache) = written_back[g].pre

C5_Witness ==
    /\ op.name = "read" /\ op.ok /\ op.n >= 1
    /\ current_group # None /\ current_group \in Groups
    /\ ~is_dirty
    /\ written_back[current_group].done
    /\ DataOf(group_cache) = written_back[current_group].pre
    /\ pre_groups = 0

\* C6: with max_group = G a write that the container does not fail returns
\* Ok with a count that stops at logical offset G * GROUP_DATA_SIZE, a write
\* that starts at or past that offset returns Ok(0), and no group >= G is
\* modified in the cache or written to the container.
C6_MaxGroupShortWrite ==
    max_group # None
    => /\ (op.name = "write" /\ op.ok)
          => op.n = Min(Len(wr.buf),
                        Max(0, max_group * GROUP_DATA_SIZE - wr.pos))
       /\ (op.name = "write" /\ ~op.ok)
          => current_position < max_group * GROUP_DATA_SIZE
       /\ current_group = None \/ current_group < max_group
       /\ \A g \in Groups : g >= max_group => ~written_back[g].done
       /\ \A i \in 1 .. Len(file) :
            i > data_offset + max_group * GROUP_SIZE
            => /\ i <= Len(InitFiles[pre_groups])
               /\ file[i] = InitFiles[pre_groups][i]

C6_Witness ==
    /\ max_group # None
    /\ op.name = "write" /\ op.ok
    /\ wr.pos < max_group * GROUP_DATA_SIZE
    /\ wr.pos + Len(wr.buf) > max_group * GROUP_DATA_SIZE
    /\ op.n = max_group * GROUP_DATA_SIZE - wr.pos
    /\ pre_groups = PreGroups

\* C7: if the container fails (seek, read or write error) during a cache-in
\* or a cache-out, the call returns the error and current_group is none
\* afterwards.
C7_ErrorClearsCurrentGroup ==
    op.fault \in {"seek", "read", "write"}
    => (~op.ok /\ current_group = None)

\* C8: after a flush that failed in its seek or write, a later flush that
\* succeeds leaves in the container a group that decrypts to the data that
\* was written.
C8_RetryFlush ==
    (hist = "wFf" /\ wr.n >= 1)
    => \A r \in {ReadBack(wr.pos, wr.n)} :
         r.ok /\ r.data = SubSeq(wr.buf, 1, wr.n)

\* C9 as the specification states it: a read issued between a write and the
\* next flush does not return the newly written bytes.
C9_NotObservableBeforeFlush ==
    (hist = "wsr" /\ WroteAll) => ~(op.ok /\ op.data = wr.buf)

\* C9: bytes written within one group are observable to a read on the same
\* stream before any flush: seek(p), write(B), seek(p), read(|B|) returns B.
C9_ObservableInCachedGroup ==
    (hist = "wsr" /\ WroteAll /\ WroteInOneGroup)
    => (op.ok /\ op.data = wr.buf)

C9_Witness ==
    /\ hist = "wsr" /\ WroteAll /\ WroteInOneGroup
    /\ wr.n > BLOCK_DATA_SIZE
    /\ op.ok /\ op.data = wr.buf
    /\ wr.view # <<>>
    /\ \A i \in 1 .. wr.n : wr.view[(wr.pos % GROUP_DATA_SIZE) + i] # wr.buf[i]
    /\ ~written_back[wr.pos \div GROUP_DATA_SIZE].done

\* C10: a flush directly after a flush leaves the container, the H3 table,
\* filled_groups and the logical position as they were, and writes nothing.
C10_FlushIdempotent ==
    [][(op.name = "flush" /\ op.ok /\ op'.name = "flush" /\ left' # left)
       => (/\ op'.ok
           /\ file' = file
           /\ h3' = h3
           /\ filled_groups' = filled_groups
           /\ current_position' = current_position
           /\ written_back' = written_back)]_vars

C10_Witness ==
    /\ hist = "wff"
    /\ written_back[0].done
    /\ FileHasGroup(file, 0)

\* the step is a call of the method name
Called(name) == left' # left /\ op'.name = name

\* C11: every cell a write copies into the group cache lies in the data
\* region of a block (in-block offset from BLOCK_DATA_OFFSET up to
\* BLOCK_SIZE), and a write that neither loads nor writes back a group
\* changes no cell of the cache but those, so none of a header region.
C11_WritesOnlyDataRegion ==
    [][Called("write")
       => /\ \A k \in 1 .. Len(op'.cells) :
               /\ op'.cells[k][2] \in 0 .. GROUP_SIZE - 1
               /\ (op'.cells[k][2] % BLOCK_SIZE) >= BLOCK_DATA_OFFSET
               /\ (op'.cells[k][2] % BLOCK_SIZE) < BLOCK_SIZE
          /\ (op'.loads = <<>> /\ written_back' = written_back)
             => \A i \in 0 .. GROUP_SIZE - 1 :
                  group_cache'[i] # group_cache[i]
                  => /\ InData(i)
                     /\ \E k \in 1 .. Len(op'.cells) : op'.cells[k][2] = i]_vars

C11_Witness ==
    /\ op.name = "write" /\ op.ok
    /\ op.n = GROUP_DATA_SIZE + 1
    /\ Len(op.cells) = op.n
    /\ op.cells[1] = <<0, CacheIndex(0, BLOCK_DATA_OFFSET)>>
    /\ op.cells[op.n] = <<1, CacheIndex(0, BLOCK_DATA_OFFSET)>>
    /\ \E k \in 1 .. op.n : op.cells[k] = <<0, GROUP_SIZE - 1>>

\* the place of logical position p: its group and its cell in the group
Place(p) ==
    <<p \div GROUP_DATA_SIZE,
      ((p % GROUP_DATA_SIZE) \div BLOCK_DATA_SIZE) * BLOCK_SIZE
          + BLOCK_DATA_OFFSET + (p % BLOCK_DATA_SIZE)>>

\* C12: read, read_into_vec and write copy the k-th byte of a call that
\* starts at position p from or to the place of position p + k - 1 (group
\* q div GROUP_DATA_SIZE, block (q mod GROUP_DATA_SIZE) div BLOCK_DATA_SIZE,
\* data offset q mod BLOCK_DATA_SIZE), also across block and group
\* boundaries; places and data-region cells correspond one to one; and on a
\* read-only stream the bytes returned are the container's plain bytes at
\* those places.
C12_SamePlace ==
    /\ op.name \in {"read", "read_into_vec", "write"}
       => /\ \A k \in 1 .. Len(op.cells) : op.cells[k] = Place(op.pos + k - 1)
          /\ (op.ok /\ op.name # "write") => Len(op.cells) = op.n
          /\ (op.ok /\ op.name # "write" /\ open_mode = "Readonly")
             => \A k \in 1 .. op.n :
                  op.data[k] = InitPlain(op.cells[k][1])[op.cells[k][2]]
    /\ \A p \in Positions, q \in Positions : Place(p) = Place(q) => p = q
    /\ \A g \in Groups, i \in 0 .. GROUP_SIZE - 1 :
         InData(i) => \E p \in Positions : Place(p) = <<g, i>>
    /\ \A p \in Positions : Place(p)[1] \in Groups /\ InData(Place(p)[2])

C12_Witness ==
    /\ op.name = "read_into_vec" /\ op.ok
    /\ open_mode = "Readonly"
    /\ op.pos = GROUP_DATA_SIZE - 1
    /\ op.n > GROUP_DATA_SIZE
    /\ op.cells[1] = <<0, GROUP_SIZE - 1>>
    /\ op.cells[2] = <<1, BLOCK_DATA_OFFSET>>
    /\ op.cells[BLOCK_DATA_SIZE + 2] = <<1, BLOCK_SIZE + BLOCK_DATA_OFFSET>>

\* C13: write on a stream created read-only returns Err of kind Unsupported
\* and leaves the logical position, the group cache, the cached-group
\* identifier, the dirty flag and the container as they were.
C13_ReadonlyWriteUnsupported ==
    [][(Called("write") /\ open_mode = "Readonly")
       => /\ ~op'.ok
          /\ op'.kind = "Unsupported"
          /\ op'.loads = <<>> /\ op'.cells = <<>>
          /\ UNCHANGED <<current_position, group_cache, current_group,
                         is_dirty, file, h3, filled_groups, open_mode,
                         max_group>>]_vars

C13_Witness ==
    /\ open_mode = "Readonly"
    /\ op.name = "write" /\ ~op.ok /\ op.kind = "Unsupported"
    /\ current_group = 0
    /\ current_position = BLOCK_DATA_SIZE + 1

\* C14: seek(SeekFrom::End(off)) succeeds on a read-only stream, where it
\* sets the position to max_group * GROUP_DATA_SIZE + off, and fails with
\* Unsupported only on a read/write stream.
C14_SeekEndReadonly ==
    (op.name = "seek" /\ op.whence = "End")
    => IF open_mode = "Readonly"
       THEN /\ op.ok
            /\ current_position = Max(max_group * GROUP_DATA_SIZE + op.off, 0)
       ELSE ~op.ok /\ op.kind = "Unsupported"

\* the highest group that holds a written position
HighestWritten == CHOOSE g \in WrittenGroups : \A h \in WrittenGroups : h <= g

\* C15: from a fresh stream at data_offset 0 (empty container, no max
\* group), after seeks and writes and then one flush, the container is
\* (highest written group + 1) * GROUP_SIZE cells long, every written group
\* was written back as one whole unit at data_offset + g * GROUP_SIZE, and
\* the units of the groups never written hold nothing but the zero gap.
C15_ContainerLength ==
    (pre_groups = 0 /\ max_group = None /\ run = "swf" /\ WrittenGroups # {})
    => /\ Len(file) = data_offset + (HighestWritten + 1) * GROUP_SIZE
       /\ \A g \in Groups :
            /\ g \in WrittenGroups
               => /\ written_back[g].done
                  /\ \A l \in {do_load_group(Stream("none"), g)} :
                       ~l.err /\ DataOf(l.group_cache) = written_back[g].pre
            /\ (g \notin WrittenGroups /\ g < HighestWritten)
               => /\ ~written_back[g].done
                  /\ FileGroup(file, g) = ZeroGroup

C15_Witness ==
    /\ pre_groups = 0 /\ max_group = None /\ run = "swf"
    /\ WrittenGroups = {0, 1}
    /\ shadow[200 % GROUP_DATA_SIZE] # None
    /\ shadow[GROUP_DATA_SIZE] # None
    /\ Len(file) = 2 * GROUP_SIZE

\* C16: seek changes only the logical position: it loads no group, writes
\* nothing to the container and leaves the group cache, the cached-group
\* identifier, the dirty flag, filled_groups and the H3 table as they were;
\* a seek from the start or from the current position succeeds on a
\* read/write stream and sets the position it asked for (not below 0),
\* also past the end of what the container holds.
C16_SeekOnlyMovesPosition ==
    [][Called("seek")
       => /\ UNCHANGED <<file, h3, group_cache, current_group, is_dirty,
                         filled_groups, open_mode, max_group>>
          /\ written_back' = written_back
          /\ op'.loads = <<>> /\ op'.cells = <<>>
          /\ op'.whence = "Start"
             => op'.ok /\ op'.n = op'.off /\ current_position' = op'.off
          /\ op'.whence = "Current"
             => /\ op'.ok
                /\ current_position' = Max(current_position + op'.off, 0)
                /\ op'.n = current_position'
          /\ ~op'.ok => current_position' = current_position]_vars

C16_Witness ==
    /\ op.name = "seek" /\ op.ok /\ op.whence = "Start"
    /\ open_mode = "ReadWrite"
    /\ Len(file) = 0
    /\ current_position = GROUP_DATA_SIZE
    /\ current_group = 0 /\ is_dirty

\* C17: on a stream whose maximum size is M = max_group * GROUP_DATA_SIZE,
\* read and read_into_vec neither load nor return a byte of a group with
\* index >= max_group; and where the container holds the groups below
\* max_group and does not fail, a request of n bytes at position p returns
\* Ok with exactly min(n, M - p) bytes for p < M and 0 bytes for p >= M.
C17_ReadsStopAtMaxSize ==
    (op.name \in {"read", "read_into_vec"} /\ max_group # None)
    => /\ \A k \in 1 .. Len(op.cells) : op.cells[k][1] < max_group
       /\ \A k \in 1 .. Len(op.loads) : op.loads[k] < max_group
       /\ (op.fault = "none"
              /\ \A g \in 0 .. max_group - 1 : FileHasGroup(file, g))
          => /\ op.ok
             /\ Len(op.data) = op.n
             /\ op.n = IF op.pos < get_max_size(max_group)
                       THEN Min(op.req, get_max_size(max_group) - op.pos)
                       ELSE 0

C17_Witness ==
    /\ open_mode = "Readonly" /\ max_group = LimitGroup
    /\ op.name = "read" /\ op.ok
    /\ op.pos = LimitGroup * GROUP_DATA_SIZE - 1
    /\ op.req = BLOCK_DATA_SIZE + 1
    /\ op.n = 1
    /\ op.loads = <<LimitGroup - 1>>
    /\ FileHasGroup(file, LimitGroup)

\* C18: read_into_vec(offset, length, buf) leaves the stream's logical
\* position as it was, for every offset and length, whether or not a group
\* is loaded and whether it returns Ok or Err.
C18_ReadIntoVecKeepsPosition ==
    [][Called("read_into_vec") => current_position' = current_position]_vars

C18_Witness ==
    /\ op.name = "read_into_vec" /\ op.ok
    /\ op.pos = 0
    /\ op.n > BLOCK_DATA_SIZE
    /\ op.loads = <<0>>
    /\ current_position = GROUP_DATA_SIZE

\* is the sequence a the start of the sequence b
IsPrefix(a, b) == Len(a) <= Len(b) /\ \A i \in 1 .. Len(a) : a[i] = b[i]

\* k calls of get_file_data
FileCalls(k) == [i \in 1 .. k |-> "get_file_data"]

\* C20 as the specification states it: add_partition calls get_disc_header,
\* then get_bi2, get_apploader, get_dol, get_fst, then get_file_data once
\* per file.
C20_ClaimedCallOrder ==
    /\ IsPrefix(builder.calls,
                <<"get_disc_header", "get_bi2", "get_apploader", "get_dol",
                  "get_fst">> \o FileCalls(MaxFiles))
    /\ builder.pc = "done"
       => builder.calls = <<"get_disc_header", "get_bi2", "get_apploader",
                            "get_dol", "get_fst">>
                          \o FileCalls(builder.total_files)

\* C20: add_partition calls get_fst first, then get_disc_header, get_bi2,
\* get_apploader, get_dol, then get_file_data once per file of the FST.
C20_CallOrder ==
    /\ IsPrefix(builder.calls,
                <<"get_fst", "get_disc_header", "get_bi2", "get_apploader",
                  "get_dol">> \o FileCalls(builder.total_files))
    /\ builder.pc = "done"
       => builder.calls = <<"get_fst", "get_disc_header", "get_bi2",
                            "get_apploader", "get_dol">>
                          \o FileCalls(builder.total_files)

C20_Witness ==
    /\ builder.pc = "done"
    /\ builder.total_files = MaxFiles
    /\ Len(builder.calls) = 5 + MaxFiles
    /\ builder.calls[1] = "get_fst"
    /\ builder.calls[Len(builder.calls)] = "get_file_data"

\* C19: a partition built by add_partition reads back completely: with
\* data_size = groups * GROUP_DATA_SIZE in the partition header and the
\* partition reader's stream opened with max_group = data_size / GROUP_SIZE,
\* a read of the logical bytes 0 .. data_size through that stream returns
\* them all, and every byte the builder wrote equals the input.
C19_BuiltPartitionReadsBack ==
    builder.pc = "done"
    => \A r \in {read(PartitionStream, builder.data_size)} :
         /\ r.ok
         /\ Len(r.data) = builder.data_size
         /\ \A p \in Positions :
              shadow[p] # None
              => p < Len(r.data) /\ r.data[p + 1] = shadow[p]

\* C21: add_partition tells the progress as (0, N), (1, N), ..., (N - 1, N),
\* N being the number of file nodes of the source tree, once before each
\* get_file_data call: the i-th progress_callback carries (i - 1, N) and the
\* next call the partition definition serves after it is the i-th
\* get_file_data; a finished add_partition has told the progress N times.
C21_ProgressCallback ==
    /\ \A i \in 1 .. Len(builder.progress) :
          /\ builder.progress[i][1] = i - 1
          /\ builder.progress[i][2] = builder.total_files
          /\ builder.progress[i][1] < builder.total_files
          /\ builder.progress[i][3] + 1 <= Len(builder.calls)
          /\ builder.calls[builder.progress[i][3] + 1] = "get_file_data"
          /\ Cardinality({k \in 1 .. builder.progress[i][3] :
                             builder.calls[k] = "get_file_data"}) = i - 1
    /\ Cardinality({k \in 1 .. Len(builder.calls) :
                       builder.calls[k] = "get_file_data"}) = Len(builder.progress)
    /\ builder.pc = "done" => Len(builder.progress) = builder.total_files

C21_Witness ==
    /\ builder.pc = "done"
    /\ builder.total_files = MaxFiles
    /\ builder.progress[MaxFiles][1] = MaxFiles - 1
    /\ builder.progress[MaxFiles][2] = MaxFiles

\* C22: after add_partition succeeded, the hash cell of the stored TMD is the
\* SHA-1 of the stored H3 table, and that table holds, for every group the
\* stream wrote, the digest of the group's H2 array as the container holds it;
\* the size cell is total_size, the zeroed cells are zero, and every other
\* cell but the counter is as the TMD was given.
C22_TmdHashOfH3Table ==
    builder.pc = "done"
    => /\ builder.tmd[TMD_HASH_OFFSET] = Sha1(builder.h3_table, H3_ENTRIES)
       /\ \A g \in Groups :
             written_back[g].done
             => /\ FileHasGroup(file, g)
                /\ builder.h3_table[g]
                     = Sha1(H2Stored(DecryptGroup(encryption_key, FileGroup(file, g)),
                                     0, 0), SUBGROUPS)
       /\ builder.tmd[TMD_SIZE_OFFSET] = builder.data_size
       /\ \A i \in 0 .. TMD_LEN - 1 :
             IF i >= TMD_ZERO_SKIP /\ i < TMD_ZERO_SKIP + TMD_ZERO_TAKE
             THEN builder.tmd[i] = 0
             ELSE i \notin {TMD_COUNTER_OFFSET, TMD_SIZE_OFFSET, TMD_HASH_OFFSET}
                  => builder.tmd[i] = builder.tmd_in[i]

C22_Witness ==
    /\ builder.pc = "done"
    /\ \A g \in Groups : written_back[g].done
    /\ builder.tmd[TMD_HASH_OFFSET] # Sha1(InitH3(0), H3_ENTRIES)
    /\ builder.tmd[TMD_COUNTER_OFFSET] > 0

\* C23: the TMD add_partition wrote has a digest, from the start of its signed
\* part to its end, whose first byte is 0: the brute force over the counter
\* was left with a counter that gives such a digest.
C23_TmdHashStartsWithZero ==
    builder.pc = "done" => TmdHashFirstByte(builder.tmd) = 0

C23_Witness ==
    /\ builder.pc = "done"
    /\ builder.tmd[TMD_COUNTER_OFFSET] > 0
    /\ TmdHashFirstByte(builder.tmd) = 0
    /\ TmdHashFirstByte([builder.tmd EXCEPT ![TMD_COUNTER_OFFSET] = 0]) # 0

\* the add_partition calls that returned Ok, as partition entries
ReturnedOk(r) == r.ok
OkEntries ==
    [i \in 1 .. Len(SelectSeq(builder.returns, ReturnedOk)) |->
        <<SelectSeq(builder.returns, ReturnedOk)[i].off,
          SelectSeq(builder.returns, ReturnedOk)[i].kind>>]

\* C24: finish writes the partition count, then 0x10008, and one entry (base
\* offset, kind) per partition in the order they were added; the table lists
\* exactly the partitions whose add_partition call returned Ok.
C24_TableListsAddedPartitions ==
    builder.pc = "finished"
    => /\ builder.table.at = 262144
       /\ builder.table.entries_off = 65544
       /\ builder.table.entries_at = 262176
       /\ builder.table.count = Len(builder.table.entries)
       /\ builder.table.entries = OkEntries

\* C25: asking the disc reader for a partition of a kind that is absent from
\* the partition table returns an error (SectionNotFound): it neither panics
\* nor returns a reader.
C25_AbsentKindIsAnError ==
    (/\ builder.opened.kind # ""
     /\ \A i \in 1 .. Len(builder.table.entries) :
           builder.table.entries[i][2] # builder.opened.kind)
    => builder.opened.outcome = "SectionNotFound"

\* C26: add_partition called with a kind outside Data, Update and Channel
\* returns an error, records no partition entry and writes no partition.
C26_UnknownKindRejected ==
    /\ \A i \in 1 .. Len(builder.returns) :
          builder.returns[i].kind \notin KnownKinds
          => ~builder.returns[i].ok /\ ~builder.returns[i].pushed
    /\ \A i \in 1 .. Len(builder.partitions) :
          builder.partitions[i][2] \in KnownKinds
    /\ (/\ builder.returns # <<>>
        /\ builder.returns[Len(builder.returns)].kind \notin KnownKinds
        /\ builder.pc # "finished")
       => \A p \in Positions : shadow[p] = None

\* C27: read_dol returns an error whenever text_off[0] plus the section sizes
\* reaches or passes 2^32 - 1, and otherwise, when it returns Ok, a buffer of
\* exactly that many bytes: never a shorter buffer with Ok.
C27_ReadDolExactSize ==
    op.name = "read_dol"
    => /\ op.req >= U32_MAX => ~op.ok
       /\ (op.req < U32_MAX /\ op.ok) => Len(op.data) = op.req

\* C28: a read never discards unflushed writes: after seeks, writes and reads
\* (read or read_into_vec) that all returned Ok and then a flush, every byte
\* written is present in the container.
C28_ReadKeepsUnflushedWrites ==
    run = "swrf"
    => \A p \in Positions :
         shadow[p] # None
         => \A r \in {ReadBack(p, 1)} : r.ok /\ r.data = <<shadow[p]>>

\* C29: whenever write returns Ok(n), exactly n bytes of the input were copied
\* into the cache and the logical position advanced by n; whenever write
\* returns Err, no byte of the input has been copied into the cache and the
\* logical position is unchanged.
C29_WriteAllOrNothing ==
    op.name = "write"
    => IF op.ok
       THEN Len(op.cells) = op.n /\ current_position = op.pos + op.n
       ELSE op.cells = <<>> /\ current_position = op.pos

\* C30: whenever write skips the cache-in of a group because the group is
\* past filled_groups, no write-back of that group by this stream has been
\* completed, in an earlier call or earlier in this one; filled_groups never
\* decreases; and after every write-back of a group, filled_groups is at
\* least that group.
C30_FilledGroups ==
    [][/\ Called("write")
          => \A i \in 1 .. Len(op'.skips) :
                /\ ~written_back[op'.skips[i][1]].done
                /\ ~op'.skips[i][2]
       /\ filled_groups' >= filled_groups
       /\ left' # left
          => \A i \in 1 .. Len(op'.outs) : filled_groups' >= op'.outs[i]]_vars

C30_Witness ==
    /\ op.name = "write" /\ op.ok
    /\ op.skips # <<>>
    /\ op.outs # <<>>
    /\ op.skips[1][1] > op.outs[1]
    /\ filled_groups >= op.outs[1]
    /\ written_back[op.outs[1]].done

\* C31: after a read that loaded a group, every block of the cache is fully
\* plaintext, hashes included: the cache is the loaded group of the container
\* with, in every block, the data region decrypted under the IV of the
\* encrypted header and the header region decrypted under a zero IV.
C31_CacheInDecryptsHeaders ==
    (op.name \in {"read", "read_into_vec"} /\ op.ok /\ op.loads # <<>>)
    => /\ current_group = op.loads[Len(op.loads)]
       /\ group_cache = DecryptGroup(encryption_key, FileGroup(file, current_group))

\* the first region of a name that add_partition wrote, as <<name, from, to>>
Region(name) ==
    builder.regions[CHOOSE i \in 1 .. Len(builder.regions) :
                        /\ builder.regions[i][1] = name
                        /\ \A j \in 1 .. i - 1 : builder.regions[j][1] # name]

\* C32: in a partition built by add_partition the logical regions are
\* pairwise disjoint and in this order: the disc header from 0 up to the BI2
\* offset, the BI2 at its offset, the apploader at its offset, the DOL, the
\* FST, then the file data, whatever lengths the definition returns; the
\* final FST lies where the placeholder was written.
C32_RegionsDisjointInOrder ==
    builder.pc = "done"
    => /\ Region("header")[2] = 0
       /\ Region("header")[3] <= Region("get_bi2")[2]
       /\ Region("get_bi2")[2] = BI2_OFFSET
       /\ Region("get_bi2")[3] <= Region("get_apploader")[2]
       /\ Region("get_apploader")[2] = APPLOADER_OFFSET
       /\ Region("get_apploader")[3] <= Region("get_dol")[2]
       /\ Region("get_dol")[3] <= Region("fst")[2]
       /\ \A i \in 1 .. Len(builder.regions) :
             builder.regions[i][1] = "file"
             => Region("fst")[3] <= builder.regions[i][2]
       /\ Region("fst_final")[2] = Region("fst")[2]
       /\ Region("fst_final")[3] <= Region("fst")[3]

\* the file data add_partition wrote, one region per file in preorder
IsFileRegion(r) == r[1] = "file"
FileRegions == SelectSeq(builder.regions, IsFileRegion)

\* C33: for every file of the FST, in preorder, the offset patched into its
\* entry is a multiple of the data alignment, is at or after the end of the
\* FST region and is the position where its bytes were written; its patched
\* length is the number of bytes the definition returned; the byte ranges of
\* two files are disjoint, the later file at the higher offset.
C33_FileEntries ==
    builder.pc = "done"
    => /\ Len(builder.fst_entries) = Len(FileRegions)
       /\ \A i \in 1 .. Len(builder.fst_entries) :
             /\ builder.fst_entries[i].offset % ALIGN_DATA = 0
             /\ builder.fst_entries[i].offset >= Region("fst")[3]
             /\ builder.fst_entries[i].offset = FileRegions[i][2]
             /\ builder.fst_entries[i].size = FileRegions[i][3] - FileRegions[i][2]
             /\ \A j \in 1 .. i - 1 :
                   /\ FileRegions[j][3] <= FileRegions[i][2]
                   /\ builder.fst_entries[j].offset < builder.fst_entries[i].offset

\* the groups add_partition counted: data_size / GROUP_DATA_SIZE
CountedGroups == builder.data_size \div GROUP_DATA_SIZE

\* C34: after add_partition succeeds, the groups written to the container
\* are exactly the groups counted in data_size: each of them was written
\* back, is in the container and has its H3 entry set, and no group at or
\* past the count was written.
C34_CountedGroupsWritten ==
    builder.pc = "done"
    => /\ \A g \in 0 .. CountedGroups - 1 :
            /\ g \in Groups
            /\ written_back[g].done
            /\ FileHasGroup(file, g)
            /\ HashesConsistent(
                   DecryptGroup(encryption_key, FileGroup(file, g)), h3[g])
       /\ \A g \in Groups : g >= CountedGroups => ~written_back[g].done

\* the end of the byte range of a partition: its base, the header area
\* and the groups counted
PartitionEnd(r) == r.off + ENCRYPTED_DATA_OFFSET + r.groups * GROUP_SIZE

\* the base the add_partition call after call i gets
NextBase(i) ==
    IF i < Len(builder.returns) THEN builder.returns[i + 1].off
    ELSE builder.current_data_offset

\* C35: the first partition base is 0x50000; after every add_partition that
\* succeeds the next base is its base + 0x20000 + groups * 0x200000; the
\* byte ranges of two partitions added are disjoint, and each lies after
\* the disc header, the partition table and the region block.
C35_PartitionsSequential ==
    /\ builder.returns # <<>> => builder.returns[1].off = FIRST_PARTITION_OFFSET
    /\ \A i \in 1 .. Len(builder.returns) :
         builder.returns[i].ok
         => /\ NextBase(i) = PartitionEnd(builder.returns[i])
            /\ builder.returns[i].off >= REGION_OFFSET + REGION_SIZE
            /\ builder.returns[i].off > PARTITION_ENTRIES_OFFSET
            /\ builder.table.entries_at # None
                 => builder.returns[i].off > builder.table.entries_at
            /\ \A j \in 1 .. i - 1 :
                  builder.returns[j].ok
                  => PartitionEnd(builder.returns[j]) <= builder.returns[i].off

C35_Witness ==
    /\ Len(builder.returns) = 2
    /\ builder.returns[1].ok /\ builder.returns[2].ok
    /\ builder.returns[1].groups = 2
    /\ builder.pc = "finished"

\* the logical byte at position p as the container stores it
StoredByte(p) ==
    DecryptGroup(encryption_key, FileGroup(file, p \div GROUP_DATA_SIZE))
        [CacheIndex((p % GROUP_DATA_SIZE) \div BLOCK_DATA_SIZE,
                    BLOCK_DATA_OFFSET + (p % BLOCK_DATA_SIZE))]

\* the groups the last write wrote into that were past filled_groups
NewGroups ==
    {g \in Groups : /\ wr.n >= 1
                    /\ g > wr.filled
                    /\ g >= wr.pos \div GROUP_DATA_SIZE
                    /\ g <= (wr.pos + wr.n - 1) \div GROUP_DATA_SIZE}

\* C36: after a write into a group past filled_groups and a flush, every
\* logical byte of that group that no write has covered is stored as zero.
C36_NewGroupZero ==
    hist = "wf"
    => \A g \in NewGroups :
         /\ FileHasGroup(file, g)
         /\ \A p \in Positions :
              (p \div GROUP_DATA_SIZE = g /\ shadow[p] = None)
              => StoredByte(p) = 0

\* C37: a read or read_into_vec of the partition read stream started at
\* p < data_size returns at most data_size - p bytes, started at
\* p >= data_size it returns none, and a seek leaves the position within
\* 0 .. data_size.
C37_NothingPastDataSize ==
    /\ (part.last.name \in {"read", "read_into_vec"} /\ part.last.ok)
       => Len(part.last.data) <= Max(0, part.data_size - part.last.pos)
    /\ part.last.name = "seek"
       => part.read_position >= 0 /\ part.read_position <= part.data_size

\* the size limit of the read-only WiiEncryptedReadWriteStream
StreamLimit == get_max_size(max_group)

\* the byte at logical position p as each reader returns it from where it is
StreamByteAt(p) == read([Stream("none") EXCEPT !.current_position = p], 1)
PartByteAt(p) == part_read([part EXCEPT !.read_position = p], file, 1)

\* C38: after the same seeks and reads on both readers, every logical
\* position below both size limits reads as the same byte through either
\* of them, and the bytes the last call returned for such a position are
\* the same when both started at the same position.
C38_ReadersAgree ==
    /\ \A p \in Positions :
         (p < StreamLimit /\ p < part.data_size)
         => /\ StreamByteAt(p).ok /\ PartByteAt(p).ok
            /\ Len(StreamByteAt(p).data) = 1
            /\ StreamByteAt(p).data = PartByteAt(p).data
    /\ (/\ op.name \in {"read", "read_into_vec"}
        /\ part.last.name = op.name
        /\ op.ok /\ part.last.ok
        /\ op.pos = part.last.pos)
       => \A i \in 1 .. Min(Len(op.data), Len(part.last.data)) :
            (op.pos + i - 1 < StreamLimit /\ op.pos + i - 1 < part.data_size)
            => op.data[i] = part.last.data[i]

C38_Witness ==
    /\ op.name = "read" /\ part.last.name = "read"
    /\ op.ok /\ part.last.ok
    /\ op.pos = part.last.pos
    /\ op.pos = GROUP_DATA_SIZE - 1
    /\ Len(op.data) = BLOCK_DATA_SIZE + 1
    /\ Len(part.last.data) = BLOCK_DATA_SIZE + 1
    /\ op.pos + BLOCK_DATA_SIZE < StreamLimit
    /\ op.pos + BLOCK_DATA_SIZE < part.data_size

\* C39: extract-sys with --section DATA, CHANNEL or UPDATE extracts from
\* the partition of that kind, and fails with SectionNotFound when the disc
\* has no partition of that kind.
C39_ExtractsGivenSection ==
    (/\ builder.extracted.section # ""
     /\ SectionKind(to_ascii_uppercase(builder.extracted.section)) # "")
    => IF \E i \in 1 .. Len(builder.table.entries) :
             builder.table.entries[i][2]
               = SectionKind(to_ascii_uppercase(builder.extracted.section))
       THEN /\ builder.extracted.outcome = "extracted"
            /\ builder.extracted.kind
                 = SectionKind(to_ascii_uppercase(builder.extracted.section))
       ELSE builder.extracted.outcome = "SectionNotFound"

====
